---- MODULE Spec2Model ----
(***************************************************************************)
(* SAMLurai: the encoding resolver (internal/saml decoder), the message    *)
(* classifier and the bulk extractor (internal/saml HAR extractor) and the *)
(* structural parser with its field extraction (internal/saml parser).     *)
(*                                                                         *)
(* Text and binary data are sequences of bytes (0..255), as Go strings and *)
(* []byte are.                                                             *)
(***************************************************************************)
EXTENDS Integers, Sequences, FiniteSets, TLC

VARIABLES
    pc,        \* position of ExtractFromHAR: start, query, post, response, next, done, error
    entry,     \* the capture entry the loop of ExtractFromHAR is at
    entryNo,   \* number of entries taken from har.Log.Entries so far
    index,     \* the shared counter (index := 1, passed as &index)
    results,   \* the results slice of ExtractFromHAR
    origin,    \* for each result, the number of the entry whose scan appended it
    tried,     \* the candidates handed to tryExtractSAML so far, in call order,
               \* each with the place and the request URL it was read from
    run2,      \* results and counter of a second run over the same capture
    savedFiles, \* the names of the files the extract command has written
    op,        \* the pure operation applied last ("idle" before any)
    arg,       \* its input
    ret        \* its output

vars == <<pc, entry, entryNo, index, results, origin, tried, run2, savedFiles, op, arg, ret>>

----------------------------------------------------------------------------
(* Bytes: text and binary data are sequences of byte values; a literal is
   written as its ASCII codes, with the text beside it.  Single codes used
   below: 9 TAB, 10 LF, 13 CR, 32 space, 34 '"', 37 '%', 38 '&', 43 '+',
   45 '-', 47 '/', 59 ';', 60 '<', 61 '=', 62 '>', 95 '_'. *)

\* ASCII code of the i-th character (from 1) of the standard base64
\* alphabet A-Z a-z 0-9 + /.
StdCode(i) ==
    IF i <= 26 THEN 64 + i
    ELSE IF i <= 52 THEN 70 + i
    ELSE IF i <= 62 THEN i - 5
    ELSE IF i = 63 THEN 43 ELSE 47

Pow2(n) == 2 ^ n

RECURSIVE Join(_, _, _)
\* The concatenation of the sequences ss[lo..hi].
Join(ss, lo, hi) ==
    IF lo > hi THEN <<>>
    ELSE IF lo = hi THEN ss[lo]
    ELSE Join(ss, lo, (lo + hi) \div 2) \o Join(ss, ((lo + hi) \div 2) + 1, hi)

Flatten(ss) == Join(ss, 1, Len(ss))

\* strings.Contains / bytes.Contains
Contains(s, sub) ==
    \E i \in 0..(Len(s) - Len(sub)) : SubSeq(s, i + 1, i + Len(sub)) = sub

\* strings.HasPrefix
HasPrefix(s, p) == Len(s) >= Len(p) /\ SubSeq(s, 1, Len(p)) = p

\* strings.ReplaceAll(s, c, "") for a single byte c
RemoveByte(s, c) == SelectSeq(s, LAMBDA b : b # c)

\* The white space strings.TrimSpace cuts from both ends (ASCII part).
IsSpace(b) == b \in {9, 10, 11, 12, 13, 32}

TrimSpace(s) ==
    LET keep == {i \in 1..Len(s) : ~IsSpace(s[i])}
    IN  IF keep = {} THEN <<>>
        ELSE LET lo == CHOOSE i \in keep : \A j \in keep : i <= j
                 hi == CHOOSE i \in keep : \A j \in keep : i >= j
             IN  SubSeq(s, lo, hi)

----------------------------------------------------------------------------
(* encoding/base64 and net/url as the decoder calls them *)

Ok(v) == [ok |-> TRUE, val |-> v]
Err == [ok |-> FALSE, val |-> <<>>]

\* "if err == nil { return decoded, nil }": the first result unless it
\* failed, else the next attempt.
orElse(first, next) == IF first.ok THEN first ELSE next

\* Value of byte b in a base64 alphabet whose characters 62 and 63 are c62
\* and c63 (StdEncoding: '+' '/', URLEncoding: '-' '_'); -1 outside it.
decodeMap(c62, c63, b) ==
    IF b >= 65 /\ b <= 90 THEN b - 65
    ELSE IF b >= 97 /\ b <= 122 THEN b - 71
    ELSE IF b >= 48 /\ b <= 57 THEN b + 4
    ELSE IF b = c62 THEN 62
    ELSE IF b = c63 THEN 63
    ELSE 0 - 1

\* Encoding.DecodeString: CR and LF are skipped; every other byte must be
\* in the alphabet, except that a padded encoding ends its last quantum with
\* "=" or "=="; a padded encoding needs whole quanta, an unpadded one only
\* refuses a single left-over character.  Left-over bits are dropped.
DecodeString(c62, c63, padded, src) ==
    LET s == RemoveByte(RemoveByte(src, 10), 13)
        n == Len(s)
        npad == IF padded /\ n >= 1 /\ s[n] = 61
                THEN (IF n >= 2 /\ s[n - 1] = 61 THEN 2 ELSE 1)
                ELSE 0
        body == n - npad
        sx(i) == IF i <= body THEN decodeMap(c62, c63, s[i]) ELSE 0
        quantum(q) == sx(4 * q + 1) * 262144 + sx(4 * q + 2) * 4096
                      + sx(4 * q + 3) * 64 + sx(4 * q + 4)
        nbytes == (body * 6) \div 8
    IN  IF /\ \A i \in 1..body : decodeMap(c62, c63, s[i]) >= 0
           /\ IF padded THEN n % 4 = 0 ELSE n % 4 # 1
        THEN Ok([k \in 1..nbytes |->
                   (quantum((k - 1) \div 3) \div Pow2(16 - 8 * ((k - 1) % 3))) % 256])
        ELSE Err

StdDecodeString(s) == DecodeString(43, 47, TRUE, s)
URLDecodeString(s) == DecodeString(45, 95, TRUE, s)
RawStdDecodeString(s) == DecodeString(43, 47, FALSE, s)

\* base64.StdEncoding.EncodeToString
EncodeToString(data) ==
    LET n == Len(data)
        at(i) == IF i <= n THEN data[i] ELSE 0
        group(q) == at(3 * q + 1) * 65536 + at(3 * q + 2) * 256 + at(3 * q + 3)
    IN  [k \in 1..(4 * ((n + 2) \div 3)) |->
            LET q == (k - 1) \div 4
                j == (k - 1) % 4
            IN  IF j > n - 3 * q
                THEN 61
                ELSE StdCode(((group(q) \div Pow2(18 - 6 * j)) % 64) + 1)]

IsHex(b) == (b >= 48 /\ b <= 57) \/ (b >= 65 /\ b <= 70) \/ (b >= 97 /\ b <= 102)

UnHex(b) == IF b <= 57 THEN b - 48 ELSE IF b <= 70 THEN b - 55 ELSE b - 87

\* The unescaped text of a string whose escapes are all well formed: the two
\* hex digits after a '%' are consumed with it.
unescape(s) ==
    LET starts == SelectSeq([i \in 1..Len(s) |-> i],
                            LAMBDA i : ~(i > 1 /\ s[i - 1] = 37) /\ ~(i > 2 /\ s[i - 2] = 37))
    IN  [k \in 1..Len(starts) |->
            LET i == starts[k]
            IN  IF s[i] = 37 THEN UnHex(s[i + 1]) * 16 + UnHex(s[i + 2])
                ELSE IF s[i] = 43 THEN 32
                ELSE s[i]]

\* url.QueryUnescape: "%XX" becomes the byte XX, '+' becomes a space; a '%'
\* not followed by two hex digits is an error.
QueryUnescape(s) ==
    IF \A i \in 1..Len(s) :
          s[i] = 37 => (i + 2 <= Len(s) /\ IsHex(s[i + 1]) /\ IsHex(s[i + 2]))
    THEN Ok(unescape(s))
    ELSE Err

----------------------------------------------------------------------------
(* compress/flate as the decoder calls it: the raw DEFLATE bit stream.     *)
(* Bits are packed into bytes from the least significant bit; Huffman      *)
(* codes travel most significant bit first.  The writer is modelled for    *)
(* inputs without back-references (shorter than the minimum match plus     *)
(* one), which it emits as one fixed-Huffman block of literals followed by *)
(* the empty final stored block that Close writes.  The reader is modelled *)
(* for stored blocks and fixed-Huffman literal blocks.                     *)

\* Bit p (0-based) of the stream.
Bit(data, p) == (data[(p \div 8) + 1] \div Pow2(p % 8)) % 2

\* The k bits from p on, read as a Huffman code (first bit most significant).
RECURSIVE Code(_, _, _)
Code(data, p, k) ==
    IF k = 0 THEN 0 ELSE Code(data, p, k - 1) * 2 + Bit(data, p + k - 1)

\* The symbol of the fixed Huffman code at bit p and its length; sym = -1
\* when the stream ends inside the code.
FixedSym(data, p) ==
    LET avail == 8 * Len(data) - p
        none == [sym |-> 0 - 1, len |-> 0]
    IN  IF avail < 7 THEN none
        ELSE IF Code(data, p, 7) <= 23
             THEN [sym |-> 256 + Code(data, p, 7), len |-> 7]
        ELSE IF avail < 8 THEN none
        ELSE IF Code(data, p, 8) <= 191
             THEN [sym |-> Code(data, p, 8) - 48, len |-> 8]
        ELSE IF Code(data, p, 8) <= 199
             THEN [sym |-> 280 + Code(data, p, 8) - 192, len |-> 8]
        ELSE IF avail < 9 THEN none
        ELSE [sym |-> 144 + Code(data, p, 9) - 400, len |-> 9]

Flate(st, v) == [st |-> st, val |-> v]

RECURSIVE inflateBlock(_, _, _)
RECURSIVE inflateFixed(_, _, _, _)
RECURSIVE fixedSymbol(_, _, _, _, _)

\* One block header at bit p, then the block.
inflateBlock(data, p, out) ==
    IF 8 * Len(data) - p < 3 THEN Flate("err", <<>>)
    ELSE
      LET final == Bit(data, p) = 1
          btype == Bit(data, p + 1) + 2 * Bit(data, p + 2)
          start == (p + 3 + 7) \div 8
          len   == data[start + 1] + 256 * data[start + 2]
          nlen  == data[start + 3] + 256 * data[start + 4]
          out2  == out \o SubSeq(data, start + 5, start + 4 + len)
      IN  IF btype = 0
          THEN IF start + 4 > Len(data) THEN Flate("err", <<>>)
               ELSE IF nlen # 65535 - len THEN Flate("err", <<>>)
               ELSE IF start + 4 + len > Len(data) THEN Flate("err", <<>>)
               ELSE IF final THEN Flate("ok", out2)
               ELSE inflateBlock(data, 8 * (start + 4 + len), out2)
          ELSE IF btype = 1 THEN inflateFixed(data, p + 3, out, final)
          ELSE IF btype = 2 THEN Flate("unmodelled", <<>>)
          ELSE Flate("err", <<>>)

\* The block continued after the symbol s read at bit p.
fixedSymbol(data, p, out, final, s) ==
    IF s.sym < 0 THEN Flate("err", <<>>)
    ELSE IF s.sym < 256 THEN inflateFixed(data, p + s.len, Append(out, s.sym), final)
    ELSE IF s.sym = 256
         THEN IF final THEN Flate("ok", out) ELSE inflateBlock(data, p + s.len, out)
    ELSE IF s.sym >= 286 THEN Flate("err", <<>>)
    ELSE Flate("unmodelled", <<>>)

inflateFixed(data, p, out, final) == fixedSymbol(data, p, out, final, FixedSym(data, p))

\* io.Copy from the reader: the whole stream or an error, never a part.
copied(r) == IF r.st = "ok" THEN Ok(r.val) ELSE Err

\* Decoder.inflate
inflate(data) == copied(inflateBlock(data, 0, <<>>))

\* The reader model covers this stream.
InflateModelled(data) == inflateBlock(data, 0, <<>>).st # "unmodelled"

BitsMSB(v, k) == [i \in 1..k |-> (v \div Pow2(k - i)) % 2]

LitCode(b) == IF b <= 143 THEN BitsMSB(48 + b, 8) ELSE BitsMSB(400 + b - 144, 9)

LitCodes(data) == Flatten([i \in 1..Len(data) |-> LitCode(data[i])])

PackBits(bits) ==
    LET at(i) == IF i <= Len(bits) THEN bits[i] ELSE 0
    IN  [j \in 1..((Len(bits) + 7) \div 8) |->
            at(8 * j - 7) + 2 * at(8 * j - 6) + 4 * at(8 * j - 5) + 8 * at(8 * j - 4)
            + 16 * at(8 * j - 3) + 32 * at(8 * j - 2) + 64 * at(8 * j - 1) + 128 * at(8 * j)]

\* Decoder.Deflate: flate.NewWriter, Write, Close.
Deflate(data) ==
    LET block == IF data = <<>> THEN <<>>
                 ELSE <<0, 1, 0>> \o LitCodes(data) \o <<0, 0, 0, 0, 0, 0, 0>>
    IN  PackBits(block \o <<1, 0, 0>>) \o <<0, 0, 255, 255>>

----------------------------------------------------------------------------
(* Decoder *)

\* Decoder.decodeWithPaddingFix
decodeWithPaddingFix(input) ==
    orElse(StdDecodeString(IF Len(input) % 4 = 2 THEN input \o <<61, 61>>
                           ELSE IF Len(input) % 4 = 3 THEN input \o <<61>>
                           ELSE input),
           RawStdDecodeString(input))

\* The last attempt of Decode, on the percent-decoded input.
decodeUnescaped(cleaned, urlDecoded) ==
    IF urlDecoded.ok /\ urlDecoded.val # cleaned
    THEN orElse(StdDecodeString(urlDecoded.val), decodeWithPaddingFix(urlDecoded.val))
    ELSE Err

\* The attempts of Decode on the input without its white space.
decodeCleaned(cleaned) ==
    orElse(StdDecodeString(cleaned),
    orElse(URLDecodeString(cleaned),
    orElse(decodeWithPaddingFix(cleaned),
           decodeUnescaped(cleaned, QueryUnescape(cleaned)))))

\* Faulty variant: the input is percent-decoded before any base64 attempt.
DecodeUnescapeFirst(input) ==
    decodeCleaned(unescape(TrimSpace(RemoveByte(RemoveByte(RemoveByte(input, 10), 13), 32))))

\* Faulty variant: only the line breaks are removed, spaces stay.
DecodeKeepSpaces(input) ==
    decodeCleaned(TrimSpace(RemoveByte(RemoveByte(input, 10), 13)))

\* Decoder.Decode
Decode(input) ==
    decodeCleaned(TrimSpace(RemoveByte(RemoveByte(RemoveByte(input, 10), 13), 32)))

\* Faulty variant: the URL-safe alphabet is tried before the standard one and
\* the percent-decoded text before the padding repair.
strategiesReordered ==
    << [by |-> "url", on |-> "cleaned"], [by |-> "std", on |-> "cleaned"],
       [by |-> "std", on |-> "urlDecoded"], [by |-> "fix", on |-> "cleaned"],
       [by |-> "fix", on |-> "urlDecoded"] >>

\* The attempts of Decode in the order of its statements: the decoding tried
\* and the text it is tried on.
strategies ==
    << [by |-> "std", on |-> "cleaned"], [by |-> "url", on |-> "cleaned"],
       [by |-> "fix", on |-> "cleaned"],
       [by |-> "std", on |-> "urlDecoded"], [by |-> "fix", on |-> "urlDecoded"] >>

\* One attempt of Decode on a text.
attempt(by, text) ==
    CASE by = "std" -> StdDecodeString(text)
      [] by = "url" -> URLDecodeString(text)
      [] by = "fix" -> decodeWithPaddingFix(text)

\* The inflation step of DecodeDeflate after its call of Decode.
inflated(decoded) == IF ~decoded.ok THEN Err ELSE inflate(decoded.val)

\* Decoder.DecodeDeflate
DecodeDeflate(input) == inflated(Decode(input))

\* Decoder.Encode
Encode(data) == EncodeToString(data)

\* Decoder.EncodeDeflate
EncodeDeflate(data) == Encode(Deflate(data))

\* isBase64Char
isBase64Char(r) ==
    \/ r >= 65 /\ r <= 90
    \/ r >= 97 /\ r <= 122
    \/ r >= 48 /\ r <= 57
    \/ r \in {43, 47, 61}
    \/ r \in {45, 95}

\* IsBase64Encoded, after its TrimSpace.  A byte above 127 belongs to a rune
\* outside the alphabet.
lexicallyBase64(trimmed) ==
    /\ trimmed # <<>>
    /\ ~HasPrefix(trimmed, <<60>>)
    /\ \A i \in 1..Len(trimmed) : isBase64Char(trimmed[i]) \/ trimmed[i] \in {10, 13, 32}

\* IsBase64Encoded
IsBase64Encoded(input) == lexicallyBase64(TrimSpace(input))

\* Continuation byte of a UTF-8 sequence.
IsCont(s, i) == i <= Len(s) /\ s[i] >= 128 /\ s[i] <= 191

\* Length of the well-formed UTF-8 sequence that starts at s[i], 0 if none
\* does (overlong forms, surrogates and values above U+10FFFF are refused).
RuneLen(s, i) ==
    IF s[i] < 128 THEN 1
    ELSE IF s[i] >= 194 /\ s[i] <= 223 THEN (IF IsCont(s, i + 1) THEN 2 ELSE 0)
    ELSE IF s[i] >= 224 /\ s[i] <= 239
         THEN (IF /\ IsCont(s, i + 1) /\ IsCont(s, i + 2)
                  /\ (s[i] = 224 => s[i + 1] >= 160)
                  /\ (s[i] = 237 => s[i + 1] <= 159)
               THEN 3 ELSE 0)
    ELSE IF s[i] >= 240 /\ s[i] <= 244
         THEN (IF /\ IsCont(s, i + 1) /\ IsCont(s, i + 2) /\ IsCont(s, i + 3)
                  /\ (s[i] = 240 => s[i + 1] >= 144)
                  /\ (s[i] = 244 => s[i + 1] <= 143)
               THEN 4 ELSE 0)
    ELSE 0

RECURSIVE validFrom(_, _)
RECURSIVE validAfter(_, _, _)
validAfter(s, i, n) == n > 0 /\ validFrom(s, i + n)
validFrom(s, i) == i > Len(s) \/ validAfter(s, i, RuneLen(s, i))

\* utf8.Valid
Valid(s) == validFrom(s, 1)

\* utf8.Valid(b) && len(b) > 0 && b[0] == '<'
validXMLStart(b) == HasPrefix(b, <<60>>) /\ Valid(b)

\* SmartDecode after a successful Decode and the call of inflate.
smartInflated(decoded, inflatedBytes) ==
    IF inflatedBytes.ok /\ validXMLStart(inflatedBytes.val) THEN inflatedBytes ELSE decoded

\* SmartDecode after its call of Decode.
smartDecoded(decoded) ==
    IF ~decoded.ok THEN Err
    ELSE IF validXMLStart(decoded.val) THEN decoded
    ELSE smartInflated(decoded, inflate(decoded.val))

\* SmartDecode after its TrimSpace.
smartTrimmed(trimmed) ==
    IF ~IsBase64Encoded(trimmed) THEN Ok(trimmed) ELSE smartDecoded(Decode(trimmed))

\* Decoder.SmartDecode
SmartDecode(input) == smartTrimmed(TrimSpace(input))

----------------------------------------------------------------------------
(* Message classifier *)

samlp == <<115, 97, 109, 108, 112, 58>>  \* "samlp:"
saml2p == <<115, 97, 109, 108, 50, 112, 58>>  \* "saml2p:"
samlNS == <<115, 97, 109, 108, 58>>  \* "saml:"
saml2NS == <<115, 97, 109, 108, 50, 58>>  \* "saml2:"
LT == <<60>>  \* "<"
SP == <<32>>  \* " "
Response == <<82, 101, 115, 112, 111, 110, 115, 101>>  \* "Response"
AuthnRequest == <<65, 117, 116, 104, 110, 82, 101, 113, 117, 101, 115, 116>>  \* "AuthnRequest"
LogoutRequest == <<76, 111, 103, 111, 117, 116, 82, 101, 113, 117, 101, 115, 116>>  \* "LogoutRequest"
LogoutResponse == <<76, 111, 103, 111, 117, 116, 82, 101, 115, 112, 111, 110, 115, 101>>  \* "LogoutResponse"
Assertion == <<65, 115, 115, 101, 114, 116, 105, 111, 110>>  \* "Assertion"
Unknown == <<85, 110, 107, 110, 111, 119, 110>>  \* "Unknown"
SAMLURN == <<117, 114, 110, 58, 111, 97, 115, 105, 115, 58, 110, 97, 109, 101, 115, 58, 116, 99, 58, 83, 65, 77, 76>>  \* "urn:oasis:names:tc:SAML"

\* HARExtractor.looksLikeXML ("<?xml" is subsumed by "<")
looksLikeXML(data) == HasPrefix(TrimSpace(data), LT)

samlIndicators ==
    << samlp \o Response, saml2p \o Response,
       samlp \o AuthnRequest, saml2p \o AuthnRequest,
       samlNS \o Assertion, saml2NS \o Assertion,
       SAMLURN,
       LT \o Response, LT \o AuthnRequest, LT \o Assertion,
       LT \o LogoutRequest, LT \o LogoutResponse >>

\* Faulty variant: the gate asks for XML only.
isSAMLXMLAnyXML(data) == looksLikeXML(data)

\* HARExtractor.isSAMLXML
isSAMLXML(data) ==
    \E i \in 1..Len(samlIndicators) : Contains(data, samlIndicators[i])

\* The table of detectSAMLType, in its order.
typeChecks ==
    << [typeName |-> Response,
        indicators |-> <<samlp \o Response, saml2p \o Response, LT \o Response \o SP>>],
       [typeName |-> AuthnRequest,
        indicators |-> <<samlp \o AuthnRequest, saml2p \o AuthnRequest,
                         LT \o AuthnRequest \o SP>>],
       [typeName |-> LogoutRequest,
        indicators |-> <<samlp \o LogoutRequest, saml2p \o LogoutRequest,
                         LT \o LogoutRequest \o SP>>],
       [typeName |-> LogoutResponse,
        indicators |-> <<samlp \o LogoutResponse, saml2p \o LogoutResponse,
                         LT \o LogoutResponse \o SP>>],
       [typeName |-> Assertion,
        indicators |-> <<samlNS \o Assertion, saml2NS \o Assertion,
                         LT \o Assertion \o SP>>] >>

RECURSIVE detectFromLast(_, _, _)
\* Faulty variant: the scan does not stop at the first matching type.
detectFromLast(checks, content, i) ==
    IF i > Len(checks) THEN Unknown
    ELSE IF /\ \E j \in 1..Len(checks[i].indicators) :
                  Contains(content, checks[i].indicators[j])
            /\ detectFromLast(checks, content, i + 1) = Unknown
         THEN checks[i].typeName
         ELSE detectFromLast(checks, content, i + 1)

RECURSIVE detectFrom(_, _, _)
detectFrom(checks, content, i) ==
    IF i > Len(checks) THEN Unknown
    ELSE IF \E j \in 1..Len(checks[i].indicators) :
               Contains(content, checks[i].indicators[j])
         THEN checks[i].typeName
         ELSE detectFrom(checks, content, i + 1)

\* HARExtractor.detectSAMLType
detectSAMLType(data) == detectFrom(typeChecks, data, 1)

----------------------------------------------------------------------------
(* Bulk extractor: one candidate *)

ToLowerByte(b) == IF b >= 65 /\ b <= 90 THEN b + 32 ELSE b

\* strings.ToLower (ASCII)
ToLower(s) == [i \in 1..Len(s) |-> ToLowerByte(s[i])]

samlParams ==
    { <<115, 97, 109, 108, 114, 101, 115, 112, 111, 110, 115, 101>>,  \* "samlresponse"
      <<115, 97, 109, 108, 114, 101, 113, 117, 101, 115, 116>>,  \* "samlrequest"
      <<115, 97, 109, 108, 97, 115, 115, 101, 114, 116, 105, 111, 110>>,  \* "samlassertion"
      <<115, 97, 109, 108, 97, 114, 116>>,  \* "samlart"
      <<108, 111, 103, 111, 117, 116, 114, 101, 113, 117, 101, 115, 116>>,  \* "logoutrequest"
      <<108, 111, 103, 111, 117, 116, 114, 101, 115, 112, 111, 110, 115, 101>> }  \* "logoutresponse"

\* HARExtractor.isSAMLParameter
isSAMLParameter(name) == ToLower(name) \in samlParams

\* The value tryExtractSAML decodes: percent-decoded once if that changes it.
unescapedOr(value, decoded) ==
    IF decoded.ok /\ decoded.val # value THEN decoded.val ELSE value

\* "URL decode first if necessary": the value tryExtractSAML goes on with.
unescapedValue(value) == unescapedOr(value, QueryUnescape(value))

Decoded(xmlData, wasDeflated) ==
    [ok |-> TRUE, xmlData |-> xmlData, wasDeflated |-> wasDeflated]

NotDecoded == [ok |-> FALSE, xmlData |-> <<>>, wasDeflated |-> FALSE]

\* Faulty variant: the inflated data is returned without the flag.
afterDeflateUnflagged(inflatedData) ==
    IF inflatedData.ok THEN Decoded(inflatedData.val, FALSE) ELSE NotDecoded

\* xmlData after DecodeDeflate was tried.
afterDeflate(inflatedData) ==
    IF inflatedData.ok THEN Decoded(inflatedData.val, TRUE) ELSE NotDecoded

\* xmlData and wasDeflated after Decode returned plain: what does not look
\* like XML is decoded again, with inflation.
afterDecode(value, plain) ==
    IF ~plain.ok THEN NotDecoded
    ELSE IF looksLikeXML(plain.val) THEN Decoded(plain.val, FALSE)
    ELSE afterDeflate(DecodeDeflate(value))

\* The decoding attempts shared by tryExtractSAML and ExtractFromBase64.
decodeAttempts(value) == afterDecode(value, Decode(value))

\* The SAML gate and the record built from what was decoded.
extracted(d, value, paramName, requestURL, source, idx) ==
    IF ~d.ok THEN <<>>
    ELSE IF ~isSAMLXML(d.xmlData) THEN <<>>
    ELSE << [ Index |-> idx,
              Type |-> detectSAMLType(d.xmlData),
              Source |-> source,
              URL |-> requestURL,
              ParameterName |-> paramName,
              RawValue |-> value,
              DecodedXML |-> d.xmlData,
              WasDeflated |-> d.wasDeflated ] >>

\* tryExtractSAML from the percent-decoded value on.
tryDecoded(value, paramName, requestURL, source, idx) ==
    extracted(decodeAttempts(value), value, paramName, requestURL, source, idx)

\* HARExtractor.tryExtractSAML: the empty sequence for nil, else the one
\* result, numbered idx (the caller advances the counter by the length).
tryExtractSAML(value, paramName, requestURL, source, idx) ==
    IF value = <<>> THEN <<>>
    ELSE tryDecoded(unescapedValue(value), paramName, requestURL, source, idx)

----------------------------------------------------------------------------
(* Bulk extractor: locating the candidates of one capture entry *)

\* strings.IndexByte, 1-based; 0 when c does not occur.
IndexByte(s, c) ==
    IF \E i \in 1..Len(s) : s[i] = c
    THEN CHOOSE i \in 1..Len(s) : s[i] = c /\ \A j \in 1..(i - 1) : s[j] # c
    ELSE 0

\* One "key=value" piece of a query: nothing for an empty piece, a failed
\* pair for a piece with ';' or a bad escape, else the unescaped pair.
badPiece == [ok |-> FALSE, name |-> <<>>, value |-> <<>>]

\* The pair of a piece from its unescaped key and value.
unescapedPiece(key, value) ==
    IF ~key.ok \/ ~value.ok THEN <<badPiece>>
    ELSE << [ok |-> TRUE, name |-> key.val, value |-> value.val] >>

\* The piece cut at its first '=' (at j; 0 for none).
cutPiece(piece, j) ==
    unescapedPiece(QueryUnescape(IF j = 0 THEN piece ELSE SubSeq(piece, 1, j - 1)),
                   QueryUnescape(IF j = 0 THEN <<>> ELSE SubSeq(piece, j + 1, Len(piece))))

queryPiece(piece) ==
    IF Contains(piece, <<59>>) THEN <<badPiece>>
    ELSE IF piece = <<>> THEN <<>>
    ELSE cutPiece(piece, IndexByte(piece, 61))

\* The pieces of a query between its '&' separators, each parsed.
queryPieces(query) ==
    LET amps == SelectSeq([i \in 1..Len(query) |-> i], LAMBDA i : query[i] = 38)
        from(k) == IF k = 1 THEN 1 ELSE amps[k - 1] + 1
        to(k) == IF k > Len(amps) THEN Len(query) ELSE amps[k] - 1
    IN  Flatten([k \in 1..(Len(amps) + 1) |-> queryPiece(SubSeq(query, from(k), to(k)))])

NameValue(n, v) == [name |-> n, value |-> v]

\* The candidates of one loop of the extractor, each with the place of the
\* capture entry it was read from.
At(pairs, place) ==
    [i \in 1..Len(pairs) |->
        [name |-> pairs[i].name, value |-> pairs[i].value, place |-> place]]

\* url.ParseQuery: the pairs in the order of the text (a url.Values keeps,
\* per key, the values in this order) and whether any piece failed.
parsedPieces(pieces) ==
    [ err |-> \E i \in 1..Len(pieces) : ~pieces[i].ok,
      pairs |-> [i \in 1..Len(SelectSeq(pieces, LAMBDA x : x.ok)) |->
                   NameValue(SelectSeq(pieces, LAMBDA x : x.ok)[i].name,
                             SelectSeq(pieces, LAMBDA x : x.ok)[i].value)] ]

ParseQuery(query) == parsedPieces(queryPieces(query))

\* The keys of a Go map built from pairs.
MapKeys(pairs) == {pairs[i].name : i \in 1..Len(pairs)}

\* The orders in which a range statement may visit the keys of a map.
RangeOrders(keys) ==
    {f \in [1..Cardinality(keys) -> keys] :
        \A i, j \in 1..Cardinality(keys) : i # j => f[i] # f[j]}

\* The pairs of a url.Values visited key by key in the given order.
inRangeOrder(pairs, order) ==
    Flatten([k \in 1..Len(order) |-> SelectSeq(pairs, LAMBDA x : x.name = order[k])])

allowListed(pairs) == SelectSeq(pairs, LAMBDA x : isSAMLParameter(x.name))

\* parsedURL.Query() of url.Parse(requestURL); no pairs when Parse fails.
urlQuery(requestURL) ==
    IF requestURL.parses THEN ParseQuery(requestURL.rawQuery).pairs ELSE <<>>

\* The candidates extractFromQueryParams hands to tryExtractSAML, in order.
queryCandidates(params, requestURL, order) ==
    At(allowListed(inRangeOrder(urlQuery(requestURL), order)), "url")
    \o At(allowListed(params), "queryString")

FormMime ==
    <<97, 112, 112, 108, 105, 99, 97, 116, 105, 111, 110, 47, 120, 45, 119, 119, 119, 45, 102, 111, 114, 109, 45, 117, 114, 108, 101, 110, 99, 111, 100, 101, 100>>  \* "application/x-www-form-urlencoded"

\* "if err == nil": the values are ranged over only when ParseQuery succeeded.
valuesUnlessError(parsed) == IF parsed.err THEN <<>> ELSE parsed.pairs

\* The pairs of the form-encoded body text that extractFromPostData scans.
formValues(postData) ==
    IF Contains(postData.mimeType, FormMime)
    THEN valuesUnlessError(ParseQuery(postData.text))
    ELSE <<>>

\* The candidates extractFromPostData hands to tryExtractSAML, in order.
postCandidates(postData, order) ==
    At(allowListed(postData.params), "params")
    \o At(allowListed(inRangeOrder(formValues(postData), order)), "form")
    \o At(<<NameValue(<<>>, postData.text)>>, "postData.text")

SAMLPrefix == <<83, 65, 77, 76>>  \* "SAML"

htmlNames ==
    { SAMLPrefix \o Response,
      <<83, 65, 77, 76, 82, 101, 113, 117, 101, 115, 116>>,  \* "SAMLRequest"
      SAMLPrefix \o Assertion }

\* What one <input> tag adds to the map of extractSAMLFromHTML: pattern
\* selects the regular expression (1: name before value, 2: value before name).
htmlMatch(input, pattern) ==
    IF /\ input.nameFirst = (pattern = 1)
       /\ input.name \in htmlNames
       /\ input.value # <<>>
    THEN IF pattern = 1 \/ ~HasPrefix(input.value, SAMLPrefix)
         THEN <<NameValue(input.name, input.value)>>
         ELSE <<NameValue(input.value, input.name)>>
    ELSE <<>>

htmlMatches(inputs, pattern) ==
    Flatten([i \in 1..Len(inputs) |-> htmlMatch(inputs[i], pattern)])

\* HARExtractor.extractSAMLFromHTML: the map as one pair per key, the last
\* assignment to a key winning.
extractSAMLFromHTML(inputs) ==
    LET assigned == htmlMatches(inputs, 1) \o htmlMatches(inputs, 2)
        last(k) == CHOOSE i \in 1..Len(assigned) :
                      /\ assigned[i].name = k
                      /\ \A j \in (i + 1)..Len(assigned) : assigned[j].name # k
    IN  {assigned[last(k)] : k \in MapKeys(assigned)}

\* Variant: the hidden form fields are handed over without their names.
responseCandidatesUnnamed(content, order) ==
    IF content.text = <<>> THEN <<>>
    ELSE At([i \in 1..Len(order) |->
                NameValue(<<>>, (CHOOSE m \in extractSAMLFromHTML(content.inputs) :
                                    m.name = order[i]).value)],
            "input")
         \o At(<<NameValue(<<>>, content.text)>>, "content.text")

\* The candidates extractFromResponseBody hands to tryExtractSAML, in order.
responseCandidates(content, order) ==
    IF content.text = <<>> THEN <<>>
    ELSE At([i \in 1..Len(order) |->
                CHOOSE m \in extractSAMLFromHTML(content.inputs) : m.name = order[i]],
            "input")
         \o At(<<NameValue(<<>>, content.text)>>, "content.text")

RECURSIVE runCandidatesSameIndex(_, _, _, _)
\* Faulty variant: the counter is passed by value and not advanced between candidates.
runCandidatesSameIndex(cands, requestURL, source, idx) ==
    IF cands = <<>> THEN <<>>
    ELSE tryExtractSAML(Head(cands).value, Head(cands).name, requestURL, source, idx)
         \o runCandidatesSameIndex(Tail(cands), requestURL, source, idx)

RECURSIVE runCandidatesStopOnFailure(_, _, _, _)
\* Faulty variant: a candidate that fails ends the scan of its list.
runCandidatesStopOnFailure(cands, requestURL, source, idx) ==
    IF cands = <<>> THEN <<>>
    ELSE LET r == tryExtractSAML(Head(cands).value, Head(cands).name,
                                 requestURL, source, idx)
         IN  IF r = <<>> THEN <<>>
             ELSE r \o runCandidatesStopOnFailure(Tail(cands), requestURL, source, idx + 1)

RECURSIVE runCandidates(_, _, _, _)

\* "if extracted != nil { results = append(results, *extracted) }", then
\* the remaining candidates with the counter where tryExtractSAML left it.
appendThenRest(r, rest, requestURL, source, idx) ==
    r \o runCandidates(rest, requestURL, source, idx + Len(r))

\* The calls of tryExtractSAML over a candidate list, threading the counter.
runCandidates(cands, requestURL, source, idx) ==
    IF cands = <<>> THEN <<>>
    ELSE appendThenRest(tryExtractSAML(Head(cands).value, Head(cands).name,
                                       requestURL, source, idx),
                        Tail(cands), requestURL, source, idx)

RequestQuery == <<114, 101, 113, 117, 101, 115, 116, 45, 113, 117, 101, 114, 121>>  \* "request-query"
RequestBody == <<114, 101, 113, 117, 101, 115, 116, 45, 98, 111, 100, 121>>  \* "request-body"
ResponseBody == <<114, 101, 115, 112, 111, 110, 115, 101, 45, 98, 111, 100, 121>>  \* "response-body"

\* HARExtractor.extractFromQueryParams
extractFromQueryParams(params, requestURL, idx, order) ==
    runCandidates(queryCandidates(params, requestURL, order), requestURL, RequestQuery, idx)

\* Faulty variant: POST data results are labelled as query results.
extractFromPostDataAsQuery(postData, requestURL, idx, order) ==
    runCandidates(postCandidates(postData, order), requestURL, RequestQuery, idx)

\* HARExtractor.extractFromPostData
extractFromPostData(postData, requestURL, idx, order) ==
    runCandidates(postCandidates(postData, order), requestURL, RequestBody, idx)

\* HARExtractor.extractFromResponseBody
extractFromResponseBody(content, requestURL, idx, order) ==
    runCandidates(responseCandidates(content, order), requestURL, ResponseBody, idx)

----------------------------------------------------------------------------
(* Capture documents: the entries ExtractFromHAR is run on *)

MaxEntries == 2

DocResponse == LT \o Response \o <<32, 73, 68, 62>>  \* " ID>"
DocPlus == LT \o Response \o <<32, 32, 62>>  \* "  >"
DocAuthn == LT \o AuthnRequest \o <<32, 73, 68, 62>>  \* " ID>"
DocAssertion == LT \o samlNS \o Assertion \o <<62>>  \* ">"
DocNotSAML == <<60, 97, 47, 62>>  \* "<a/>"
NotBase64 == <<33, 33>>  \* "!!"

SAMLResponseName == SAMLPrefix \o Response
SAMLRequestName == <<83, 65, 77, 76, 82, 101, 113, 117, 101, 115, 116>>  \* "SAMLRequest"
RelayStateName == <<82, 101, 108, 97, 121, 83, 116, 97, 116, 101>>  \* "RelayState"

\* The percent-encoding a browser applies to a base64 value in a URL or form.
PercentEncode(s) ==
    Flatten([i \in 1..Len(s) |->
                IF s[i] = 43 THEN <<37, 50, 66>>  \* "%2B"
                ELSE IF s[i] = 47 THEN <<37, 50, 70>>  \* "%2F"
                ELSE IF s[i] = 61 THEN <<37, 51, 68>>  \* "%3D"
                ELSE <<s[i]>>])

\* name=value, percent-encoded, as it stands in a query or form body.
Pair(n, v) == n \o <<61>> \o PercentEncode(v)  \* "="

Amp == <<38>>  \* "&"

URLOf(path, rawQuery) == [parses |-> TRUE, path |-> path, rawQuery |-> rawQuery]
BadURL == [parses |-> FALSE, path |-> <<37>>, rawQuery |-> Pair(SAMLResponseName, Encode(DocResponse))]  \* "%"
IdP == <<105, 100, 112>>  \* "idp"
SP1 == <<115, 112>>  \* "sp"

NoPostData == [mimeType |-> <<>>, text |-> <<>>, params |-> <<>>]
PostData(mimeType, text, params) == [mimeType |-> mimeType, text |-> text, params |-> params]
TextPlain == <<116, 101, 120, 116, 47, 112, 108, 97, 105, 110>>  \* "text/plain"

HiddenInput(n, v, nameFirst) == [name |-> n, value |-> v, nameFirst |-> nameFirst]

\* The text of an <input> tag.
InputTag(i) ==
    LET nameAttr == <<32, 110, 97, 109, 101, 61>> \o <<34>> \o i.name \o <<34>>  \* " name=", '"', '"'
        valueAttr == <<32, 118, 97, 108, 117, 101, 61>> \o <<34>> \o i.value \o <<34>>  \* " value=", '"', '"'
    IN  <<60, 105, 110, 112, 117, 116>>  \* "<input"
        \o (IF i.nameFirst THEN nameAttr \o valueAttr ELSE valueAttr \o nameAttr)
        \o <<62>>  \* ">"

InputTags(inputs) == Flatten([i \in 1..Len(inputs) |-> InputTag(inputs[i])])

NoContent == [text |-> <<>>, inputs |-> <<>>]
HTMLContent(inputs) == [text |-> InputTags(inputs), inputs |-> inputs]
RawContent(text) == [text |-> text, inputs |-> <<>>]

Entry(url, queryString, hasPostData, postData, content) ==
    [ request |-> [url |-> url, queryString |-> queryString,
                   hasPostData |-> hasPostData, postData |-> postData],
      response |-> [content |-> content] ]

NoEntry == Entry(URLOf(<<>>, <<>>), <<>>, FALSE, NoPostData, NoContent)

\* A capture entry whose only content is the POST form parameter
\* SAMLResponse in postData.params, the standard base64 of document d.
PostParamEntry(d) ==
    Entry(URLOf(SP1, <<>>), <<>>, TRUE,
          PostData(FormMime, <<>>, <<NameValue(SAMLResponseName, Encode(d))>>),
          NoContent)

Entries ==
    { \* nothing to find
      Entry(URLOf(SP1, <<>>), <<>>, FALSE, NoPostData, NoContent),
      \* HTTP-Redirect binding: deflated, base64, percent-encoded in the URL
      Entry(URLOf(IdP, Pair(SAMLRequestName, EncodeDeflate(DocAuthn))),
            <<>>, FALSE, NoPostData, NoContent),
      \* two allow-listed parameters in the URL query
      Entry(URLOf(IdP, Pair(SAMLRequestName, Encode(DocAuthn)) \o Amp
                       \o Pair(SAMLResponseName, Encode(DocResponse))),
            <<>>, FALSE, NoPostData, NoContent),
      \* the queryString array only
      Entry(URLOf(IdP, <<>>), <<NameValue(SAMLRequestName, Encode(DocAuthn))>>,
            FALSE, NoPostData, NoContent),
      \* HTTP-POST binding, form parameter only
      PostParamEntry(DocResponse),
      \* the same with a document whose base64 contains '+'
      PostParamEntry(DocPlus),
      \* two allow-listed parameters in the form-encoded body text
      Entry(URLOf(SP1, <<>>), <<>>, TRUE,
            PostData(FormMime,
                     Pair(SAMLResponseName, Encode(DocResponse)) \o Amp
                     \o Pair(SAMLRequestName, Encode(DocAuthn)), <<>>),
            NoContent),
      \* a raw base64 body
      Entry(URLOf(SP1, <<>>), <<>>, TRUE,
            PostData(TextPlain, Encode(DocAssertion), <<>>), NoContent),
      \* two hidden form fields, either attribute order
      Entry(URLOf(IdP, <<>>), <<>>, FALSE, NoPostData,
            HTMLContent(<<HiddenInput(SAMLResponseName, Encode(DocResponse), TRUE),
                          HiddenInput(SAMLRequestName, Encode(DocAuthn), FALSE)>>)),
      \* a raw base64 response body
      Entry(URLOf(IdP, <<>>), <<>>, FALSE, NoPostData, RawContent(Encode(DocAssertion))),
      \* query, body and response of one entry all carry a message
      Entry(URLOf(IdP, Pair(SAMLRequestName, Encode(DocAuthn))), <<>>, TRUE,
            PostData(FormMime, <<>>, <<NameValue(SAMLResponseName, Encode(DocResponse))>>),
            HTMLContent(<<HiddenInput(SAMLResponseName, Encode(DocAssertion), TRUE)>>)),
      \* candidates that are not base64, not SAML, not allow-listed
      Entry(URLOf(SP1, Pair(SAMLResponseName, NotBase64)),
            <<NameValue(RelayStateName, Encode(DocResponse))>>, TRUE,
            PostData(FormMime, <<>>,
                     <<NameValue(SAMLRequestName, Encode(DocNotSAML)),
                       NameValue(ToLower(SAMLResponseName), Encode(DocAssertion))>>),
            RawContent(Encode(<<0, 0, 0>>))),
      \* as browsers write it: the URL query repeated in the queryString
      \* array, the form body repeated in postData.params
      Entry(URLOf(IdP, Pair(SAMLRequestName, Encode(DocAuthn))),
            <<NameValue(SAMLRequestName, Encode(DocAuthn))>>, TRUE,
            PostData(FormMime, Pair(SAMLResponseName, Encode(DocResponse)),
                     <<NameValue(SAMLResponseName, Encode(DocResponse))>>),
            NoContent),
      \* a request URL url.Parse refuses
      Entry(BadURL, <<NameValue(SAMLResponseName, Encode(DocResponse))>>,
            FALSE, NoPostData, NoContent) }

----------------------------------------------------------------------------
(* Bulk extractor: direct input *)

DirectInput == <<100, 105, 114, 101, 99, 116, 45, 105, 110, 112, 117, 116>>  \* "direct-input"

\* The record of ExtractFromBase64: Index 1, Source direct-input, no URL
\* and no parameter name; the value is not percent-decoded.
tryDirect(value) == extracted(decodeAttempts(value), value, <<>>, <<>>, DirectInput, 1)

\* A record or an error.
direct(r) == IF r = <<>> THEN Err ELSE Ok(r[1])

\* HARExtractor.ExtractFromBase64
ExtractFromBase64(value) == direct(tryDirect(value))

----------------------------------------------------------------------------
(* Bulk extractor: file names *)

\* strings.ReplaceAll(s, old, new) for one-byte old and new.
ReplaceAll(s, old, new) == [i \in 1..Len(s) |-> IF s[i] = old THEN new ELSE s[i]]

\* The decimal digits of a natural number.
RECURSIVE Decimal(_)
Decimal(n) == IF n < 10 THEN <<48 + n>> ELSE Decimal(n \div 10) \o <<48 + (n % 10)>>

\* Faulty variant: the number is written without padding.
sprintfD(n) == Decimal(n)

\* The verb %03d of fmt.Sprintf for a natural number: its digits, with
\* zeros in front up to a width of three.
sprintf03d(n) ==
    [i \in 1..(3 - Len(Decimal(n))) |-> 48] \o Decimal(n)

\* Faulty variant: the name leaves out the index.
GenerateFilenameUnnumbered(x) ==
    <<115, 97, 109, 108, 95>>  \* "saml_"
    \o ToLower(ReplaceAll(x.Type, 32, 95))  \* " ", "_"
    \o <<95>>  \* "_"
    \o ReplaceAll(x.Source, 45, 95)  \* "-", "_"
    \o <<46, 120, 109, 108>>  \* ".xml"

\* HARExtractor.GenerateFilename
GenerateFilename(x) ==
    <<115, 97, 109, 108, 95>>  \* "saml_"
    \o sprintf03d(x.Index)
    \o <<95>>  \* "_"
    \o ToLower(ReplaceAll(x.Type, 32, 95))  \* " ", "_"
    \o <<95>>  \* "_"
    \o ReplaceAll(x.Source, 45, 95)  \* "-", "_"
    \o <<46, 120, 109, 108>>  \* ".xml"

----------------------------------------------------------------------------
(* Structural parser.  A document is its root element (none when the name *)
(* is empty), the child elements of the root, whether the root element is  *)
(* closed by its end tag, and the text that follows the root element; its  *)
(* text is what the parser sniffs, its structure what xml.Unmarshal        *)
(* decodes.                                                                *)

\* An element: its attributes (a function from attribute names to values),
\* its character data and its child elements.
Node(prefix, name, attrs, text, children) ==
    [prefix |-> prefix, name |-> name, attrs |-> attrs, text |-> text,
     children |-> children]

Element(prefix, name) == Node(prefix, name, <<>>, <<>>, <<>>)

\* Local names of the elements the parser's structs are tagged with.
Names ==
    [ Status |-> <<83, 116, 97, 116, 117, 115>>,
      StatusCode |-> <<83, 116, 97, 116, 117, 115, 67, 111, 100, 101>>,
      Signature |-> <<83, 105, 103, 110, 97, 116, 117, 114, 101>>,
      SignedInfo |-> <<83, 105, 103, 110, 101, 100, 73, 110, 102, 111>>,
      SignatureMethod |->
          <<83, 105, 103, 110, 97, 116, 117, 114, 101, 77, 101, 116, 104, 111, 100>>,
      NameIDPolicy |-> <<78, 97, 109, 101, 73, 68, 80, 111, 108, 105, 99, 121>>,
      Extensions |-> <<69, 120, 116, 101, 110, 115, 105, 111, 110, 115>>,
      RequestedAttribute |->
          <<82, 101, 113, 117, 101, 115, 116, 101, 100, 65, 116, 116, 114, 105, 98, 117,
            116, 101>>,
      Conditions |-> <<67, 111, 110, 100, 105, 116, 105, 111, 110, 115>>,
      AuthnStatement |->
          <<65, 117, 116, 104, 110, 83, 116, 97, 116, 101, 109, 101, 110, 116>>,
      StatusMessage |->
          <<83, 116, 97, 116, 117, 115, 77, 101, 115, 115, 97, 103, 101>> ]

\* The elements of a list with a local name, in document order.
named(elements, name) == SelectSeq(elements, LAMBDA c : c.name = name)

\* A struct field tagged with an element name: the element decoded last, the
\* zero value when there is none.
lastOr(found) == IF found = <<>> THEN Element(<<>>, <<>>) ELSE found[Len(found)]

child(elements, name) == lastOr(named(elements, name))

\* A string field tagged ",attr": the value of the attribute, the empty
\* string when the element does not carry it.
attr(element, name) ==
    IF name \in DOMAIN element.attrs THEN element.attrs[name] ELSE <<>>

EncryptedAssertion == <<69, 110, 99, 114, 121, 112, 116, 101, 100>> \o Assertion  \* "Encrypted"
Issuer == <<73, 115, 115, 117, 101, 114>>  \* "Issuer"
ResponseEncrypted ==
    Response \o <<32, 40, 69, 110, 99, 114, 121, 112, 116, 101, 100, 41>>  \* " (Encrypted)"

Doc(closed, rest, root, children) ==
    [closed |-> closed, rest |-> rest, root |-> root, children |-> children]

\* The text of the root element, without its end tag when it is not closed.
rootText(doc) ==
    LT \o doc.root.prefix \o doc.root.name \o <<62>>  \* ">"
    \o Flatten([i \in 1..Len(doc.children) |->
                  LT \o doc.children[i].prefix \o doc.children[i].name \o <<47, 62>>])  \* "/>"
    \o (IF doc.closed
        THEN LT \o <<47>> \o doc.root.prefix \o doc.root.name \o <<62>>  \* "/", ">"
        ELSE <<>>)

\* The text of a document.
XMLText(doc) == (IF doc.root.name = <<>> THEN <<>> ELSE rootText(doc)) \o doc.rest

\* The document is well-formed XML: one complete root element and nothing
\* after it.
WellFormed(doc) == doc.root.name # <<>> /\ doc.closed /\ doc.rest = <<>>

\* xml.Unmarshal into a struct whose XMLName is tagged with the local name:
\* the decoder skips to the first start tag (io.EOF when there is none),
\* fails on a root element of another local name and on a syntax error up to
\* the end tag of the root, and returns at that end tag without reading what
\* follows it.
Unmarshals(doc, localName) == doc.closed /\ doc.root.name = localName

\* n decimal digits stand at s[i..i+n-1].
DigitsAt(s, i, n) == i + n - 1 <= Len(s) /\ \A k \in i..(i + n - 1) : s[k] >= 48 /\ s[k] <= 57

\* The number written by the n digits at s[i].
RECURSIVE Num(_, _, _)
Num(s, i, n) == IF n = 0 THEN 0 ELSE Num(s, i, n - 1) * 10 + (s[i + n - 1] - 48)

DaysIn(month, year) ==
    IF month = 2
    THEN (IF year % 4 = 0 /\ (year % 100 # 0 \/ year % 400 = 0) THEN 29 ELSE 28)
    ELSE IF month \in {4, 6, 9, 11} THEN 30 ELSE 31

\* Where the zone starts: after the seconds, or after a fraction "." or ","
\* with its digits.
zoneStart(s) ==
    IF Len(s) >= 21 /\ s[20] \in {46, 44} /\ DigitsAt(s, 21, 1)
    THEN CHOOSE z \in 22..(Len(s) + 1) :
            /\ DigitsAt(s, 21, z - 21)
            /\ ~DigitsAt(s, z, 1)
    ELSE 20

\* The zone "Z" or a signed "hh:mm" is all that stands from s[z] on.
zoneAt(s, z) ==
    \/ Len(s) = z /\ s[z] = 90
    \/ /\ Len(s) = z + 5
       /\ s[z] \in {43, 45}
       /\ DigitsAt(s, z + 1, 2) /\ s[z + 3] = 58 /\ DigitsAt(s, z + 4, 2)
       /\ Num(s, z + 1, 2) <= 24 /\ Num(s, z + 4, 2) <= 60

\* The fields of a time that stands in the layout, Err when one is out of
\* range.
timeOf(s, z) ==
    IF /\ Num(s, 6, 2) \in 1..12
       /\ Num(s, 9, 2) \in 1..DaysIn(Num(s, 6, 2), Num(s, 1, 4))
       /\ Num(s, 12, 2) <= 23 /\ Num(s, 15, 2) <= 59 /\ Num(s, 18, 2) <= 59
    THEN Ok([ year |-> Num(s, 1, 4), month |-> Num(s, 6, 2), day |-> Num(s, 9, 2),
              hour |-> Num(s, 12, 2), minute |-> Num(s, 15, 2), second |-> Num(s, 18, 2),
              fraction |-> SubSeq(s, 21, z - 1),
              offset |-> IF s[z] = 90 THEN 0
                         ELSE (IF s[z] = 45 THEN 0 - 1 ELSE 1)
                              * (60 * Num(s, z + 1, 2) + Num(s, z + 4, 2)) ])
    ELSE Err

\* time.Parse(time.RFC3339, s) for the two-digit hour form of the layout
\* "2006-01-02T15:04:05Z07:00", with the fraction of a second that Parse
\* accepts after the seconds.
ParseRFC3339(s) ==
    IF /\ DigitsAt(s, 1, 4) /\ DigitsAt(s, 6, 2) /\ DigitsAt(s, 9, 2)
       /\ DigitsAt(s, 12, 2) /\ DigitsAt(s, 15, 2) /\ DigitsAt(s, 18, 2)
       /\ s[5] = 45 /\ s[8] = 45 /\ s[11] = 84 /\ s[14] = 58 /\ s[17] = 58
       /\ zoneAt(s, zoneStart(s))
    THEN timeOf(s, zoneStart(s))
    ELSE Err

\* Faulty variant: the pointer is set whatever time.Parse returned.
pointerAlways(r) == <<r.val>>

\* "if err == nil { info.X = &t }": the pointer set from a result.
pointerTo(r) == IF r.ok THEN <<r.val>> ELSE <<>>

\* A *time.Time field: left nil for an empty attribute and for one that
\* time.Parse refuses.
optionalTime(value) == pointerTo(IF value = <<>> THEN Err ELSE ParseRFC3339(value))

\* SAMLInfo with the fields the parser fills left at their zero values; a
\* pointer field is the empty sequence (nil) or a sequence of one value.
SAMLInfo(type, assertion) ==
    [ Type |-> type, Assertion |-> assertion,
      ID |-> <<>>, Destination |-> <<>>, InResponseTo |-> <<>>, Issuer |-> <<>>,
      IssueInstant |-> <<>>, Status |-> <<>>, Signature |-> <<>>,
      Conditions |-> <<>>, AuthnStatement |-> <<>>,
      ForceAuthn |-> <<>>, IsPassive |-> <<>>, NameIDPolicy |-> <<>>,
      RequestedAttributes |-> <<>> ]

\* Faulty variant: the segment before the first colon.
extractStatusCodeFirst(fullCode) ==
    IF \E i \in 1..Len(fullCode) : fullCode[i] = 58
    THEN SubSeq(fullCode, 1, (CHOOSE i \in 1..Len(fullCode) :
                                 /\ fullCode[i] = 58
                                 /\ \A j \in 1..(i - 1) : fullCode[j] # 58) - 1)
    ELSE fullCode

\* Parser.extractStatusCode: the last of the parts of strings.Split(fullCode,
\* ":"), which has at least one part.
extractStatusCode(fullCode) ==
    IF \E i \in 1..Len(fullCode) : fullCode[i] = 58
    THEN SubSeq(fullCode, (CHOOSE i \in 1..Len(fullCode) :
                              /\ fullCode[i] = 58
                              /\ \A j \in (i + 1)..Len(fullCode) : fullCode[j] # 58) + 1,
                Len(fullCode))
    ELSE fullCode

\* The root element with its child elements, as xml.Unmarshal fills the
\* struct from it.
rootElement(doc) == [doc.root EXCEPT !.children = doc.children]

\* Parser.parseSignature: Signed and the signature method (the digest method
\* and the certificate are not modelled).
parseSignature(sig) ==
    [ Signed |-> TRUE,
      SignatureMethod |->
          attr(child(child(sig.children, Names.SignedInfo).children, Names.SignatureMethod),
               "Algorithm") ]

\* "if x.Signature != nil { info.Signature = p.parseSignature(x.Signature) }"
signatureOf(found) == IF found = <<>> THEN <<>> ELSE <<parseSignature(lastOr(found))>>

\* "if resp.Status.StatusCode.Value != "" { info.Status = &Status{...} }"
statusOf(status, value) ==
    IF value = <<>> THEN <<>>
    ELSE << [ StatusCode |-> extractStatusCode(value),
              StatusMessage |-> child(status.children, Names.StatusMessage).text ] >>

\* "if assertion.Conditions != nil { ... }"
conditionsOf(found) ==
    IF found = <<>> THEN <<>>
    ELSE << [ NotBefore |-> optionalTime(attr(lastOr(found), "NotBefore")),
              NotOnOrAfter |-> optionalTime(attr(lastOr(found), "NotOnOrAfter")) ] >>

\* "if assertion.AuthnStatement != nil { ... }"
authnStatementOf(found) ==
    IF found = <<>> THEN <<>>
    ELSE << [ SessionIndex |-> attr(lastOr(found), "SessionIndex"),
              AuthnInstant |-> optionalTime(attr(lastOr(found), "AuthnInstant")),
              SessionNotOnOrAfter |->
                  optionalTime(attr(lastOr(found), "SessionNotOnOrAfter")) ] >>

\* Parser.parseAssertionStruct (Subject, audiences and attribute values are
\* not modelled).
parseAssertionStruct(assertion) ==
    [ SAMLInfo(Assertion, <<>>) EXCEPT
        !.ID = attr(assertion, "ID"),
        !.Issuer = child(assertion.children, Issuer).text,
        !.IssueInstant = optionalTime(attr(assertion, "IssueInstant")),
        !.Conditions = conditionsOf(named(assertion.children, Names.Conditions)),
        !.AuthnStatement = authnStatementOf(named(assertion.children, Names.AuthnStatement)),
        !.Signature = signatureOf(named(assertion.children, Names.Signature)) ]

\* Parser.parseAssertion
parseAssertion(doc) ==
    IF ~Unmarshals(doc, Assertion) THEN Err ELSE Ok(parseAssertionStruct(rootElement(doc)))

\* A *bool field: nil for an empty attribute string, else whether the
\* lower-cased value is "true".
optionalBool(value) ==
    IF value = <<>> THEN <<>> ELSE <<ToLower(value) = <<116, 114, 117, 101>>>>  \* "true"

\* "if req.NameIDPolicy != nil { ... }"
nameIDPolicyOf(found) ==
    IF found = <<>> THEN <<>>
    ELSE << [ Format |-> attr(lastOr(found), "Format"),
              SPNameQualifier |-> attr(lastOr(found), "SPNameQualifier"),
              AllowCreate |-> optionalBool(attr(lastOr(found), "AllowCreate")) ] >>

\* The RequestedAttribute elements of Extensions, in document order.
requestedAttributes(found) ==
    [ i \in 1..Len(found) |->
        [ Name |-> attr(found[i], "Name"),
          IsRequired |-> optionalBool(attr(found[i], "isRequired")) ] ]

\* Faulty variant: the request record is tagged "Request".
parseAuthnRequestAsRequest(doc) ==
    IF ~Unmarshals(doc, AuthnRequest) THEN Err
    ELSE Ok([Type |-> <<82, 101, 113, 117, 101, 115, 116>>, Assertion |-> <<>>])  \* "Request"

\* Parser.parseAuthnRequest (AssertionConsumerServiceURL and ProtocolBinding
\* are not modelled).
parseAuthnRequest(doc) ==
    IF ~Unmarshals(doc, AuthnRequest) THEN Err
    ELSE Ok([ SAMLInfo(AuthnRequest, <<>>) EXCEPT
                !.ID = attr(doc.root, "ID"),
                !.Destination = attr(doc.root, "Destination"),
                !.Issuer = child(doc.children, Issuer).text,
                !.IssueInstant = optionalTime(attr(doc.root, "IssueInstant")),
                !.ForceAuthn = optionalBool(attr(doc.root, "ForceAuthn")),
                !.IsPassive = optionalBool(attr(doc.root, "IsPassive")),
                !.NameIDPolicy = nameIDPolicyOf(named(doc.children, Names.NameIDPolicy)),
                !.Signature = signatureOf(named(doc.children, Names.Signature)),
                !.RequestedAttributes =
                    requestedAttributes(named(child(doc.children, Names.Extensions).children,
                                              Names.RequestedAttribute)) ])

\* The Assertion field of samlResponse: the child elements named Assertion.
assertionChildren(doc) == SelectSeq(doc.children, LAMBDA c : c.name = Assertion)

\* The fields parseResponse and parseResponsePartial fill alike.
responseInfo(type, doc) ==
    [ SAMLInfo(type, <<>>) EXCEPT
        !.ID = attr(doc.root, "ID"),
        !.Destination = attr(doc.root, "Destination"),
        !.InResponseTo = attr(doc.root, "InResponseTo"),
        !.Issuer = child(doc.children, Issuer).text,
        !.IssueInstant = optionalTime(attr(doc.root, "IssueInstant")),
        !.Status = statusOf(child(doc.children, Names.Status),
                            attr(child(child(doc.children, Names.Status).children,
                                       Names.StatusCode), "Value")),
        !.Signature = signatureOf(named(doc.children, Names.Signature)) ]

\* Faulty variant: the nested record carries a nested record of its own.
assertionOfNested(found) ==
    IF found = <<>> THEN <<>>
    ELSE << [ parseAssertionStruct(lastOr(found)) EXCEPT
                !.Assertion = <<parseAssertionStruct(lastOr(found))>> ] >>

\* "if resp.Assertion != nil { ... info.Assertion = assertion }"
assertionOf(found) ==
    IF found = <<>> THEN <<>> ELSE <<parseAssertionStruct(lastOr(found))>>

\* Parser.parseResponse
parseResponse(doc) ==
    IF ~Unmarshals(doc, Response) THEN Err
    ELSE Ok([responseInfo(Response, doc) EXCEPT !.Assertion = assertionOf(assertionChildren(doc))])

\* Parser.parseResponsePartial
parseResponsePartial(doc) ==
    IF ~Unmarshals(doc, Response) THEN Err ELSE Ok(responseInfo(ResponseEncrypted, doc))

\* The opening-tag test of Parse and ParsePartial for a protocol element.
sniffs(doc, prefix, name) ==
    \/ Contains(TrimSpace(XMLText(doc)), LT \o prefix \o name)
    \/ Contains(TrimSpace(XMLText(doc)), LT \o name)

\* Parser.Parse
Parse(doc) ==
    IF sniffs(doc, samlp, Response) THEN parseResponse(doc)
    ELSE IF sniffs(doc, samlp, AuthnRequest) THEN parseAuthnRequest(doc)
    ELSE IF sniffs(doc, samlNS, Assertion) THEN parseAssertion(doc)
    ELSE orElse(parseResponse(doc), orElse(parseAuthnRequest(doc), parseAssertion(doc)))

\* Parser.ParsePartial
ParsePartial(doc) ==
    IF sniffs(doc, samlp, Response) THEN parseResponsePartial(doc) ELSE Parse(doc)

----------------------------------------------------------------------------
(* Encrypted content and the inspect command.  What the key file holds and *)
(* what the ciphertext decrypts to lie outside the documents modelled here: *)
(* loading the key, decrypting and formatting each succeed or fail by      *)
(* choice.                                                                 *)

EncryptedData == <<69, 110, 99, 114, 121, 112, 116, 101, 100, 68, 97, 116, 97>>  \* "EncryptedData"

\* etree's Document.ReadFromBytes: every token up to the end of the input is
\* read, so an element that is not closed is an error wherever it stands;
\* text outside the root element is not.
ReadFromBytes(doc) ==
    (doc.root.name = <<>> \/ doc.closed) /\ ~Contains(doc.rest, LT)

\* The local names of the elements of a list and of all their descendants.
RECURSIVE namesIn(_)
namesIn(elements) ==
    UNION { {elements[i].name} \cup namesIn(elements[i].children) :
            i \in 1..Len(elements) }

\* doc.FindElement("//name") # nil
FindElement(doc, name) ==
    doc.root.name = name \/ name \in namesIn(doc.children)

\* saml.IsEncrypted
IsEncrypted(doc) ==
    /\ ReadFromBytes(doc)
    /\ (FindElement(doc, EncryptedAssertion) \/ FindElement(doc, EncryptedData))

\* Decryptor.Decrypt: the document must be read and hold an EncryptedData
\* element; plain is what xmlenc.Decrypt then returns.
Decrypt(doc, plain) ==
    IF ~ReadFromBytes(doc) THEN Err
    ELSE IF ~FindElement(doc, EncryptedData) THEN Err
    ELSE plain

\* One line of what inspect wrote for a message: the number in the
\* "[i/n]" heading, the warning printed (none when empty), the parser run,
\* the document it was run on and the record printed (none when not ok).
Shown(i, warning, parser, on, info) ==
    [index |-> i, warning |-> warning, parser |-> parser, on |-> on, info |-> info]

\* What runInspectSAML returns: an error, or nil after printing the record.
Failed(why) == [err |-> why, printed |-> Err]
Printed(info) == [err |-> "", printed |-> info]

\* "Step 3: Parse and display" of runInspectSAML.
parseAndDisplay(info, formats) ==
    IF ~info.ok THEN Failed("failed to parse SAML")
    ELSE IF ~formats THEN Failed("failed to format output")
    ELSE Printed(info)

\* "Step 2: Auto-decrypt if encrypted and key is provided": the error
\* returned, or the document step 3 goes on with.
autoDecrypt(doc, key, loads, decrypted) ==
    IF ~IsEncrypted(doc) THEN [err |-> "", xmlData |-> doc]
    ELSE IF ~key
    THEN [err |-> "encrypted SAML detected but no private key provided", xmlData |-> doc]
    ELSE IF ~loads THEN [err |-> "failed to load private key", xmlData |-> doc]
    ELSE IF ~decrypted.ok THEN [err |-> "failed to decrypt SAML", xmlData |-> doc]
    ELSE [err |-> "", xmlData |-> decrypted.val]

\* Steps 2 and 3 of runInspectSAML.
decryptAndDisplay(step, formats) ==
    IF step.err # "" THEN Failed(step.err)
    ELSE parseAndDisplay(Parse(step.xmlData), formats)

\* runInspectSAML from the result of SmartDecode on.
runInspectSAML(decodedInput, doc, key, loads, plain, formats) ==
    IF ~decodedInput.ok THEN Failed("failed to decode input")
    ELSE decryptAndDisplay(autoDecrypt(doc, key, loads, Decrypt(doc, plain)), formats)

----------------------------------------------------------------------------
(* Inputs of one run *)

MaxLen == 3

NoDoc == Doc(FALSE, <<>>, Element(<<>>, <<>>), <<>>)

Input(kind, text, doc) == [kind |-> kind, text |-> text, doc |-> doc]

\* Byte values that reach both literal code lengths of the fixed Huffman
\* code and the base64 characters '+' and '/'.
ByteValues == {0, 60, 62, 144, 251, 255}

ByteSeqs == UNION {[1..n -> ByteValues] : n \in 0..MaxLen}

\* Opening tags of the five message elements under the prefix conventions,
\* with and without attributes.
OpenTag(prefix, name, attrs) ==
    LT \o prefix \o name \o (IF attrs THEN <<32, 73, 68, 62>> ELSE <<62>>)  \* " ID>", ">"

ProtocolTags ==
    { OpenTag(p, n, a) : p \in {samlp, saml2p, <<>>},
                         n \in {Response, AuthnRequest, LogoutRequest, LogoutResponse},
                         a \in BOOLEAN }

AssertionTags == { OpenTag(p, Assertion, a) : p \in {samlNS, saml2NS, <<>>}, a \in BOOLEAN }

Contents ==
    {<<>>, DocNotSAML} \cup ProtocolTags \cup AssertionTags
    \cup { w \o n : w \in ProtocolTags \cup AssertionTags, n \in AssertionTags }
    \cup { w \o n : w \in {OpenTag(<<>>, Response, TRUE), OpenTag(samlp, Response, FALSE)},
                    n \in ProtocolTags }

\* Characters of encoded values: 'A', a URL-safe and a standard extra
\* character ('-', '+'), padding, the escape character, a space.
EncodedChars == {65, 45, 43, 61, 37, 32}

\* Values that reach each attempt of Decode: "PA==", "+/8=", "-_8=", "PA",
\* "PFI", "PA=", "PA%3D%3D", "PA%3D", "%2B/8=", " P A =\n=", "\r\n", "%zz",
\* "-_8", and every string of at most MaxLen characters of EncodedChars.
EncodedValues ==
    { <<80, 65, 61, 61>>, <<43, 47, 56, 61>>, <<45, 95, 56, 61>>, <<80, 65>>,
      <<80, 70, 73>>, <<80, 65, 61>>, <<80, 65, 37, 51, 68, 37, 51, 68>>,
      <<80, 65, 37, 51, 68>>, <<37, 50, 66, 47, 56, 61>>,
      <<32, 80, 32, 65, 32, 61, 10, 61>>, <<13, 10>>, <<37, 122, 122>>,
      <<45, 95, 56>> }
    \cup UNION {[1..n -> EncodedChars] : n \in 0..MaxLen}

StatusURN ==  \* "urn:oasis:names:tc:SAML:2.0:status:"
    <<117, 114, 110, 58, 111, 97, 115, 105, 115, 58, 110, 97, 109, 101, 115, 58, 116, 99,
      58, 83, 65, 77, 76, 58, 50, 46, 48, 58, 115, 116, 97, 116, 117, 115, 58>>
Success == <<83, 117, 99, 99, 101, 115, 115>>  \* "Success"
Requester == <<82, 101, 113, 117, 101, 115, 116, 101, 114>>  \* "Requester"

\* Status values: the URIs of the protocol, bare names, a URI that ends with
\* a colon, and every string of at most MaxLen colons and letters 'S'.
StatusValues ==
    { StatusURN \o Success, StatusURN \o Requester, Success, StatusURN,
      Success \o <<58, 58>> \o Requester }
    \cup UNION {[1..n -> {58, 83}] : n \in 0..MaxLen}

Base64Values ==
    { Encode(DocResponse), Encode(DocPlus), EncodeDeflate(DocAuthn),
      Encode(DocNotSAML), Encode(<<0, 0, 0>>), NotBase64, <<>> }

Broken == <<60, 98, 114, 111, 107, 101, 110, 62>>  \* "<broken>"
NotXML == <<110, 111, 116, 32, 88, 77, 76>>  \* "not XML"

\* Documents of each root under the prefix conventions, complete, cut before
\* the end tag of the root, or followed by an unclosed tag; and the inputs
\* without any element, empty or plain text.
XMLDocs ==
    { Doc(closed, rest, Element(p, n), c) :
        closed \in BOOLEAN,
        rest \in {<<>>, Broken},
        p \in {samlp, saml2p, samlNS, <<>>},
        n \in {Response, AuthnRequest, Assertion, LogoutRequest},
        c \in { <<>>,
                <<Element(samlNS, Issuer), Element(samlNS, Assertion)>>,
                <<Element(<<>>, Assertion)>>,
                <<Element(samlNS, EncryptedAssertion)>> } }
    \cup { Doc(FALSE, rest, Element(<<>>, <<>>), <<>>) : rest \in {<<>>, NotXML} }

\* Attribute and text values of the documents below.
Values ==
    [ id |-> <<95, 49>>,  \* "_1"
      idp |-> <<105, 100, 112>>,  \* "idp"
      acs |-> <<47, 97, 99, 115>>,  \* "/acs"
      rsa |-> <<114, 115, 97, 45, 115, 104, 97, 50, 53, 54>>,  \* "rsa-sha256"
      ds |-> <<100, 115, 58>> ]  \* "ds:"

\* <saml:Issuer>idp</saml:Issuer> and a Status with the Success code.
IssuerAndStatus ==
    << Node(samlNS, Issuer, <<>>, Values.idp, <<>>),
       Node(samlp, Names.Status, <<>>, <<>>,
            << Node(samlp, Names.StatusCode, "Value" :> (StatusURN \o Success),
                    <<>>, <<>>) >>) >>

\* <ds:Signature> with its signature method.
SignatureElement ==
    Node(Values.ds, Names.Signature, <<>>, <<>>,
         << Node(Values.ds, Names.SignedInfo, <<>>, <<>>,
                 << Node(Values.ds, Names.SignatureMethod, "Algorithm" :> Values.rsa,
                         <<>>, <<>>) >>) >>)

\* Complete Response documents that carry ID, Issuer and Status, with or
\* without Destination and Signature, whose assertion is absent, encrypted,
\* or an Assertion element with content the parser cannot read as a time.
ResponseDocs ==
    { Doc(TRUE, <<>>, Node(p, Response, a, <<>>, <<>>), IssuerAndStatus \o s \o sub) :
        p \in {samlp, saml2p, <<>>},
        a \in { "ID" :> Values.id, ("ID" :> Values.id) @@ ("Destination" :> Values.acs) },
        s \in { <<>>, <<SignatureElement>> },
        sub \in { <<>>,
                  <<Element(samlNS, EncryptedAssertion)>>,
                  <<Node(samlNS, Assertion, "IssueInstant" :> NotXML, <<>>, <<>>)>> } }

\* The attributes an element carries: those of a record of optional values
\* (the empty sequence for a missing attribute, else one value).
AttrsOf(optional) ==
    [n \in {m \in DOMAIN optional : optional[m] # <<>>} |-> optional[n][1]]

\* A boolean attribute: missing, "true", "tRuE", "false", "1", or present
\* with the empty value.
BoolAttrs ==
    { <<>>, <<<<116, 114, 117, 101>>>>, <<<<116, 82, 117, 69>>>>,
      <<<<102, 97, 108, 115, 101>>>>, <<<<49>>>>, <<<<>>>> }

\* AuthnRequest documents with each combination of ForceAuthn, IsPassive,
\* AllowCreate of NameIDPolicy and isRequired of a RequestedAttribute.
AuthnDocs ==
    { Doc(TRUE, <<>>,
          Node(samlp, AuthnRequest, AttrsOf([ForceAuthn |-> f, IsPassive |-> p]), <<>>, <<>>),
          << Node(samlp, Names.NameIDPolicy, AttrsOf([AllowCreate |-> a]), <<>>, <<>>),
             Node(samlp, Names.Extensions, <<>>, <<>>,
                  << Node(<<>>, Names.RequestedAttribute, AttrsOf([isRequired |-> r]),
                          <<>>, <<>>) >>) >>) :
        f \in BoolAttrs, p \in BoolAttrs, a \in BoolAttrs, r \in BoolAttrs }

\* Timestamp texts: three that are instants, and a date without time, the
\* 29th of February of a common year, a space for the "T", a missing zone.
Times ==
    [
      utc |->  \* "2024-01-15T10:30:00Z"
          <<50, 48, 50, 52, 45, 48, 49, 45, 49, 53, 84, 49, 48, 58, 51, 48, 58, 48, 48, 90>>,
      offset |->  \* "2024-02-29T23:59:59+01:00"
          <<50, 48, 50, 52, 45, 48, 50, 45, 50, 57, 84, 50, 51, 58, 53, 57, 58, 53, 57, 43, 48, 49, 58, 48, 48>>,
      fraction |->  \* "2024-01-15T10:30:00.5Z"
          <<50, 48, 50, 52, 45, 48, 49, 45, 49, 53, 84, 49, 48, 58, 51, 48, 58, 48, 48, 46, 53, 90>>,
      dateOnly |->  \* "2024-01-15"
          <<50, 48, 50, 52, 45, 48, 49, 45, 49, 53>>,
      noLeapDay |->  \* "2023-02-29T10:30:00Z"
          <<50, 48, 50, 51, 45, 48, 50, 45, 50, 57, 84, 49, 48, 58, 51, 48, 58, 48, 48, 90>>,
      space |->  \* "2024-01-15 10:30:00Z"
          <<50, 48, 50, 52, 45, 48, 49, 45, 49, 53, 32, 49, 48, 58, 51, 48, 58, 48, 48, 90>>,
      noZone |->  \* "2024-01-15T10:30:00"
          <<50, 48, 50, 52, 45, 48, 49, 45, 49, 53, 84, 49, 48, 58, 51, 48, 58, 48, 48>> ]

\* A timestamp attribute: missing, an instant, or a text that is none.
TimeAttrs == { <<>>, <<Times.utc>>, <<Times.dateOnly>>, <<Times.noLeapDay>> }

\* Any of the timestamp texts, not XML text, or the empty value.
AnyTimeAttrs == { <<Times[n]>> : n \in DOMAIN Times } \cup { <<>>, <<NotXML>>, <<<<>>>> }

\* An Assertion element with its five timestamps.
TimedAssertion(issued, notBefore, notOnOrAfter, authn, session) ==
    Node(samlNS, Assertion, ("ID" :> Values.id) @@ AttrsOf([IssueInstant |-> issued]), <<>>,
         << Node(samlNS, Issuer, <<>>, Values.idp, <<>>),
            Node(samlNS, Names.Conditions,
                 AttrsOf([NotBefore |-> notBefore, NotOnOrAfter |-> notOnOrAfter]),
                 <<>>, <<>>),
            Node(samlNS, Names.AuthnStatement,
                 ("SessionIndex" :> Values.id)
                 @@ AttrsOf([AuthnInstant |-> authn, SessionNotOnOrAfter |-> session]),
                 <<>>, <<>>) >>)

\* The document whose root is the element.
DocOf(element) == Doc(TRUE, <<>>, [element EXCEPT !.children = <<>>], element.children)

\* Assertion documents with every combination of TimeAttrs at the five
\* timestamps or one of AnyTimeAttrs at all of them, and Responses with one
\* of AnyTimeAttrs as IssueInstant that embed such an Assertion.
TimeDocs ==
    { DocOf(TimedAssertion(i, b, a, n, s)) :
        i \in TimeAttrs, b \in TimeAttrs, a \in TimeAttrs, n \in TimeAttrs, s \in TimeAttrs }
    \cup { DocOf(TimedAssertion(t, t, t, t, t)) : t \in AnyTimeAttrs }
    \cup { Doc(TRUE, <<>>,
               Node(samlp, Response, ("ID" :> Values.id) @@ AttrsOf([IssueInstant |-> t]),
                    <<>>, <<>>),
               IssuerAndStatus \o <<TimedAssertion(u, t, u, t, u)>>) :
             t \in AnyTimeAttrs, u \in TimeAttrs }

\* Records handed to GenerateFilename: indexes of one to four digits, the
\* types of the classifier and of the parser, a type and a source with
\* capitals, spaces and hyphens, and fields the name does not depend on.
Indexes == {0, 1, 9, 10, 99, 100, 999, 1000}

Types ==
    { Response, AuthnRequest, Unknown, ResponseEncrypted, <<>>,
      <<65, 32, 98, 45, 67, 32>> }  \* "A b-C "

Sources ==
    { RequestQuery, RequestBody, ResponseBody, DirectInput,
      <<97, 45, 66, 32, 99, 45>> }  \* "a-B c-"

ExtractedRecords ==
    { [ Index |-> n, Type |-> t, Source |-> s, URL |-> URLOf(IdP, <<>>),
        ParameterName |-> p, RawValue |-> Encode(DocResponse),
        DecodedXML |-> DocResponse, WasDeflated |-> d ] :
      n \in Indexes, t \in Types, s \in Sources,
      p \in {<<>>, SAMLResponseName}, d \in BOOLEAN }

\* An ExtractedSAML as the input of GenerateFilename.
InputExtracted(x) ==
    [kind |-> "extracted", text |-> <<>>, doc |-> NoDoc, extracted |-> x]

\* The greatest number of messages inspect is given.
MaxMessages == 2

\* <saml:EncryptedAssertion> around <xenc:EncryptedData>.
EncryptedElement ==
    Node(samlNS, EncryptedAssertion, <<>>, <<>>,
         <<Element(<<120, 101, 110, 99, 58>>, EncryptedData)>>)  \* "xenc:"

\* A complete Response with ID, Issuer and Status under a prefix convention.
ResponseOf(p, sub) ==
    Doc(TRUE, <<>>, Node(p, Response, "ID" :> Values.id, <<>>, <<>>),
        IssuerAndStatus \o sub)

\* The messages inspect is run on: Responses with an encrypted assertion
\* under the three prefix conventions, one whose EncryptedAssertion holds no
\* EncryptedData, one with a plain Assertion, one cut before its end tag,
\* and an AuthnRequest.
InspectDocs ==
    { ResponseOf(p, <<EncryptedElement>>) : p \in {samlp, saml2p, <<>>} }
    \cup { ResponseOf(samlp, <<Element(samlNS, EncryptedAssertion)>>),
           ResponseOf(samlp, <<Node(samlNS, Assertion, "ID" :> Values.id, <<>>, <<>>)>>),
           Doc(FALSE, <<>>, Element(samlp, Response), <<>>),
           Doc(TRUE, <<>>, Node(samlp, AuthnRequest, "ID" :> Values.id, <<>>, <<>>), <<>>) }

\* What xmlenc.Decrypt may return: an error, the Assertion that was
\* encrypted, or bytes that are no SAML document.
Plaintexts ==
    { Err,
      Ok(Doc(TRUE, <<>>, Node(samlNS, Assertion, "ID" :> Values.id, <<>>, <<>>), <<>>)),
      Ok(Doc(FALSE, NotXML, Element(<<>>, <<>>), <<>>)) }

\* The input of inspect: one document (with its text) for runInspectSAML,
\* the extracted messages for runInspectHAR, and whether -k is given.
InputInspect(kind, doc, messages, key) ==
    [kind |-> kind, text |-> XMLText(doc), doc |-> doc, messages |-> messages, key |-> key]

InspectInputs ==
    { InputInspect("inspectSAML", d, <<>>, k) : d \in InspectDocs, k \in BOOLEAN }
    \cup { InputInspect("inspectHAR", NoDoc, m, k) :
             m \in UNION { [1..n -> InspectDocs] : n \in 0..MaxMessages },
             k \in BOOLEAN }

Inputs ==
    { Input("har", <<>>, NoDoc) }
    \cup { Input("bytes", b, NoDoc) : b \in ByteSeqs }
    \cup { Input("content", c, NoDoc) : c \in Contents }
    \cup { Input("base64", v, NoDoc) : v \in Base64Values }
    \cup { Input("encoded", v, NoDoc) : v \in EncodedValues }
    \cup { Input("status", v, NoDoc) : v \in StatusValues }
    \cup { InputExtracted(x) : x \in ExtractedRecords }
    \cup InspectInputs
    \cup { Input("xml", XMLText(d), d) : d \in XMLDocs \cup ResponseDocs \cup AuthnDocs \cup TimeDocs }

----------------------------------------------------------------------------
(* ExtractFromHAR as a state machine: json.Unmarshal, then per entry the   *)
(* query scan, the body scan and the response scan, then the return.  The  *)
(* second run (run2) reads the same capture with its own map range orders. *)

HARIdle == pc = "start" /\ entry = NoEntry /\ entryNo = 0 /\ index = 0
           /\ results = <<>> /\ origin = <<>> /\ tried = <<>>
           /\ run2 = [results |-> <<>>, index |-> 0]
           /\ savedFiles = <<>>

Init == HARIdle /\ op = "idle" /\ arg \in Inputs /\ ret = <<>>

\* json.Unmarshal(data, &har): an error returns at once; otherwise
\* results is nil and index is 1.
ParseCapture ==
    /\ pc = "start"
    /\ arg.kind = "har"
    /\ \E parses \in BOOLEAN :
          /\ pc' = IF parses THEN "loop" ELSE "error"
          /\ index' = IF parses THEN 1 ELSE index
          /\ run2' = IF parses THEN [run2 EXCEPT !.index = 1] ELSE run2
    /\ UNCHANGED <<entry, entryNo, results, origin, tried, savedFiles, op, arg, ret>>

\* for _, entry := range har.Log.Entries
NextEntry ==
    /\ pc = "loop"
    /\ entryNo < MaxEntries
    /\ \E e \in Entries : entry' = e
    /\ entryNo' = entryNo + 1
    /\ pc' = "query"
    /\ UNCHANGED <<index, results, origin, tried, run2, savedFiles, op, arg, ret>>

\* The candidates of the entry being scanned, each with the request URL of
\* that entry.
InEntry(cands) ==
    [i \in 1..Len(cands) |->
        [name |-> cands[i].name, value |-> cands[i].value,
         place |-> cands[i].place, url |-> entry.request.url]]

\* Faulty variant: the extracted results are put in front of the earlier ones.
AppendedInFront(cands, new1, new2, next) ==
    /\ results' = new1 \o results
    /\ index' = index + Len(new1)
    /\ origin' = [i \in 1..Len(new1) |-> entryNo] \o origin
    /\ tried' = tried \o InEntry(cands)
    /\ run2' = [results |-> new2 \o run2.results, index |-> run2.index + Len(new2)]
    /\ pc' = next
    /\ UNCHANGED <<entry, entryNo, savedFiles, op, arg, ret>>

\* results = append(results, extracted...) in both runs.
Appended(cands, new1, new2, next) ==
    /\ results' = results \o new1
    /\ index' = index + Len(new1)
    /\ origin' = origin \o [i \in 1..Len(new1) |-> entryNo]
    /\ tried' = tried \o InEntry(cands)
    /\ run2' = [results |-> run2.results \o new2, index |-> run2.index + Len(new2)]
    /\ pc' = next
    /\ UNCHANGED <<entry, entryNo, savedFiles, op, arg, ret>>

ScanQuery ==
    /\ pc = "query"
    /\ \E o1, o2 \in RangeOrders(MapKeys(urlQuery(entry.request.url))) :
          Appended(queryCandidates(entry.request.queryString, entry.request.url, o1),
                   extractFromQueryParams(entry.request.queryString, entry.request.url,
                                          index, o1),
                   extractFromQueryParams(entry.request.queryString, entry.request.url,
                                          run2.index, o2),
                   "post")

ScanPostData ==
    /\ pc = "post"
    /\ IF entry.request.hasPostData
       THEN \E o1, o2 \in RangeOrders(MapKeys(formValues(entry.request.postData))) :
               Appended(postCandidates(entry.request.postData, o1),
                        extractFromPostData(entry.request.postData, entry.request.url,
                                            index, o1),
                        extractFromPostData(entry.request.postData, entry.request.url,
                                            run2.index, o2),
                        "response")
       ELSE Appended(<<>>, <<>>, <<>>, "response")

ScanResponse ==
    /\ pc = "response"
    /\ \E o1, o2 \in RangeOrders({m.name : m \in
                                      extractSAMLFromHTML(entry.response.content.inputs)}) :
          Appended(responseCandidates(entry.response.content, o1),
                   extractFromResponseBody(entry.response.content, entry.request.url,
                                           index, o1),
                   extractFromResponseBody(entry.response.content, entry.request.url,
                                           run2.index, o2),
                   "loop")

\* return results, nil
Return ==
    /\ pc = "loop"
    /\ pc' = "done"
    /\ UNCHANGED <<entry, entryNo, index, results, origin, tried, run2, savedFiles, op, arg, ret>>

----------------------------------------------------------------------------
(* The extract command in extract mode: after ExtractFromHAR has returned  *)
(* results, saveExtractedSAML creates the output directory and writes one  *)
(* file per result under the name GenerateFilename gives it; creating the  *)
(* directory and writing a file succeed or fail by choice.                 *)

\* The variables saving leaves alone.
Extracted == <<entry, entryNo, index, results, origin, tried, run2, op, arg, ret>>

\* runExtract with results, not in list mode: os.MkdirAll.
StartSave ==
    /\ pc = "done"
    /\ results # <<>>
    /\ \E created \in BOOLEAN : pc' = IF created THEN "save" ELSE "saveError"
    /\ UNCHANGED <<savedFiles, Extracted>>

\* os.WriteFile succeeded under the name of result r.
Written(r) ==
    /\ savedFiles' = Append(savedFiles, GenerateFilename(r))
    /\ pc' = "save"
    /\ UNCHANGED Extracted

\* os.WriteFile failed: the command returns the error.
NotWritten ==
    /\ pc' = "saveError"
    /\ UNCHANGED <<savedFiles, Extracted>>

\* One round of "for _, r := range results".
SaveFile ==
    /\ pc = "save"
    /\ Len(savedFiles) < Len(results)
    /\ (Written(results[Len(savedFiles) + 1]) \/ NotWritten)

\* The summary is printed and nil returned.
SaveSummary ==
    /\ pc = "save"
    /\ Len(savedFiles) = Len(results)
    /\ pc' = "saved"
    /\ UNCHANGED <<savedFiles, Extracted>>

----------------------------------------------------------------------------
(* The operations on a single input *)

HARVars == <<pc, entry, entryNo, index, results, origin, tried, run2, savedFiles>>

Applied(kind, name, value) ==
    /\ op = "idle"
    /\ arg.kind = kind
    /\ op' = name
    /\ ret' = value
    /\ UNCHANGED <<arg, HARVars>>

\* Decode(Encode(B))
EncodeDecode == Applied("bytes", "EncodeDecode", Decode(Encode(arg.text)))

\* DecodeDeflate(EncodeDeflate(B))
EncodeDecodeDeflate ==
    Applied("bytes", "EncodeDecodeDeflate", DecodeDeflate(EncodeDeflate(arg.text)))

\* White space found in pasted and wrapped values: a space, a line feed, a
\* carriage return with line feed.
WhiteSpaces == {<<32>>, <<10>>, <<13, 10>>}

\* s with w inserted after its first p and after its first q characters.
Spaced(s, w, p, q) ==
    SubSeq(s, 1, p) \o w \o SubSeq(s, p + 1, q) \o w \o SubSeq(s, q + 1, Len(s))

\* Decode(S') for a value S with white space inserted at two positions.
DecodeSpaced ==
    \E w \in WhiteSpaces, q \in 0..Len(arg.text) : \E p \in 0..q :
        Applied("base64", "DecodeSpaced",
                [input |-> Spaced(arg.text, w, p, q),
                 out |-> Decode(Spaced(arg.text, w, p, q))])

\* Decode statement by statement.  ret holds the cleaned input, the text
\* after url.QueryUnescape once it is computed, the attempts made so far and
\* the result of the last one.
DecodeClean ==
    Applied("encoded", "Decode.attempts",
            [cleaned |-> TrimSpace(RemoveByte(RemoveByte(RemoveByte(arg.text, 10), 13), 32)),
             urlDecoded |-> Err, tried |-> <<>>, out |-> Err])

\* The attempt s was made and gave out: Decode returns a success at once and
\* the error after its last statement.
attempted(s, out) ==
    /\ ret' = [ret EXCEPT !.tried = Append(@, s), !.out = out]
    /\ op' = IF out.ok \/ Len(ret.tried) + 1 = Len(strategies)
             THEN "Decode" ELSE "Decode.attempts"
    /\ UNCHANGED <<arg, HARVars>>

DecodeAttempt(s) ==
    /\ s.on = "cleaned" \/ ret.urlDecoded.ok
    /\ attempted(s, attempt(s.by, IF s.on = "cleaned" THEN ret.cleaned
                                  ELSE ret.urlDecoded.val))

DecodeNext ==
    /\ op = "Decode.attempts"
    /\ Len(ret.tried) < Len(strategies)
    /\ DecodeAttempt(strategies[Len(ret.tried) + 1])

\* urlDecoded, urlErr := url.QueryUnescape(cleaned); the block that follows
\* is skipped, and the last error returned, unless it succeeded and changed
\* the text.
unescapedFor(urlDecoded) ==
    /\ ret' = [ret EXCEPT !.urlDecoded = IF urlDecoded.ok /\ urlDecoded.val # ret.cleaned
                                         THEN urlDecoded ELSE Err]
    /\ op' = IF urlDecoded.ok /\ urlDecoded.val # ret.cleaned
             THEN "Decode.attempts" ELSE "Decode"
    /\ UNCHANGED <<arg, HARVars>>

DecodeUnescape ==
    /\ op = "Decode.attempts"
    /\ Len(ret.tried) < Len(strategies)
    /\ strategies[Len(ret.tried) + 1].on = "urlDecoded"
    /\ ~ret.urlDecoded.ok
    /\ unescapedFor(QueryUnescape(ret.cleaned))

\* The call of inflate, when SmartDecode reaches it, is on a stream the
\* reader model covers.
smartModelled(trimmed, decoded) ==
    (IsBase64Encoded(trimmed) /\ decoded.ok /\ ~validXMLStart(decoded.val))
        => InflateModelled(decoded.val)

\* SmartDecode on a raw document, a base64 value or an encoded value.
DoSmartDecode ==
    \E k \in {"content", "base64", "encoded"} :
        /\ smartModelled(TrimSpace(arg.text), Decode(arg.text))
        /\ Applied(k, "SmartDecode", SmartDecode(arg.text))

ExtractStatusCode ==
    Applied("status", "extractStatusCode", extractStatusCode(arg.text))

DoGenerateFilename ==
    Applied("extracted", "GenerateFilename", GenerateFilename(arg.extracted))

\* runInspectSAML: SmartDecode of the input text, which leaves the text of a
\* document as it is, then decryption, parsing and display.
InspectedAs(decodedInput) ==
    /\ decodedInput.ok => decodedInput.val = arg.text
    /\ \E loads, formats \in BOOLEAN, plain \in Plaintexts :
          Applied("inspectSAML", "runInspectSAML",
                  runInspectSAML(decodedInput, arg.doc, arg.key, loads, plain, formats))

InspectSAML ==
    /\ op = "idle"
    /\ arg.kind = "inspectSAML"
    /\ InspectedAs(SmartDecode(arg.text))

\* runInspectHAR up to its loop: the error of ExtractFromHAR is returned,
\* no results end the command with a notice, else the heading is printed.
InspectHAR ==
    /\ op = "idle"
    /\ arg.kind = "inspectHAR"
    /\ \E parses \in BOOLEAN :
          /\ op' = IF parses /\ arg.messages # <<>> THEN "runInspectHAR.loop"
                   ELSE "runInspectHAR"
          /\ ret' = [ err |-> IF parses THEN "" ELSE "failed to parse HAR file",
                      i |-> 1, out |-> <<>>, xmlData |-> NoDoc ]
    /\ UNCHANGED <<arg, HARVars>>

\* The message the loop of runInspectHAR is at.
Message == arg.messages[ret.i]

\* The loop goes on to the next message with one more line written.
Continue(shown) ==
    /\ ret' = [ret EXCEPT !.i = @ + 1, !.out = Append(@, shown), !.xmlData = NoDoc]
    /\ op' = "runInspectHAR.loop"
    /\ UNCHANGED <<arg, HARVars>>

\* Faulty variant: the decrypted output is dropped and the message parsed
\* as it was extracted.
ToParseUndecrypted(xmlData) ==
    /\ ret' = [ret EXCEPT !.xmlData = Message]
    /\ op' = "runInspectHAR.parse"
    /\ UNCHANGED <<arg, HARVars>>

\* The loop goes on to "Parse and display" with xmlData.
ToParse(xmlData) ==
    /\ ret' = [ret EXCEPT !.xmlData = xmlData]
    /\ op' = "runInspectHAR.parse"
    /\ UNCHANGED <<arg, HARVars>>

\* An encrypted message without a key: the warning, then what ParsePartial
\* makes of the document, printed when it succeeds.
InspectWithoutKey ==
    /\ op = "runInspectHAR.loop"
    /\ ret.i <= Len(arg.messages)
    /\ IsEncrypted(Message)
    /\ ~arg.key
    /\ Continue(Shown(ret.i, "provide -k flag to decrypt", "ParsePartial",
                      Message, ParsePartial(Message)))

\* The outcome of NewDecryptor and Decrypt for an encrypted message.
Decrypted(loads, decrypted) ==
    IF ~loads THEN Continue(Shown(ret.i, "Failed to load private key", "", NoDoc, Err))
    ELSE IF ~decrypted.ok THEN Continue(Shown(ret.i, "Failed to decrypt", "", NoDoc, Err))
    ELSE ToParse(decrypted.val)

\* An encrypted message with a key: the key is loaded and the document
\* decrypted; a failure of either is a warning.
InspectDecrypt ==
    /\ op = "runInspectHAR.loop"
    /\ ret.i <= Len(arg.messages)
    /\ IsEncrypted(Message)
    /\ arg.key
    /\ \E loads \in BOOLEAN, plain \in Plaintexts :
          Decrypted(loads, Decrypt(Message, plain))

\* A message that is not encrypted is parsed as it is.
InspectPlain ==
    /\ op = "runInspectHAR.loop"
    /\ ret.i <= Len(arg.messages)
    /\ ~IsEncrypted(Message)
    /\ ToParse(Message)

\* The line written for a parsed document.
Displayed(info, formats) ==
    IF ~info.ok THEN Shown(ret.i, "Failed to parse", "Parse", ret.xmlData, Err)
    ELSE IF ~formats THEN Shown(ret.i, "Failed to format", "Parse", ret.xmlData, Err)
    ELSE Shown(ret.i, "", "Parse", ret.xmlData, info)

\* "Parse and display": a failure of Parse or of the formatter is a warning.
InspectParse ==
    /\ op = "runInspectHAR.parse"
    /\ \E formats \in BOOLEAN : Continue(Displayed(Parse(ret.xmlData), formats))

\* After the last message: return nil.
InspectReturn ==
    /\ op = "runInspectHAR.loop"
    /\ ret.i > Len(arg.messages)
    /\ op' = "runInspectHAR"
    /\ UNCHANGED <<arg, ret, HARVars>>

DetectType == Applied("content", "detectSAMLType", detectSAMLType(arg.text))

FromBase64 == Applied("base64", "ExtractFromBase64", ExtractFromBase64(arg.text))

DoParse == Applied("xml", "Parse", Parse(arg.doc))

DoParsePartial == Applied("xml", "ParsePartial", ParsePartial(arg.doc))

Next == \/ ParseCapture \/ NextEntry \/ ScanQuery \/ ScanPostData \/ ScanResponse
        \/ Return
        \/ StartSave \/ SaveFile \/ SaveSummary
        \/ EncodeDecode \/ EncodeDecodeDeflate \/ DetectType \/ FromBase64
        \/ DoParse \/ DoParsePartial
        \/ DecodeSpaced
        \/ DecodeClean \/ DecodeNext \/ DecodeUnescape
        \/ DoSmartDecode \/ ExtractStatusCode
        \/ DoGenerateFilename
        \/ InspectSAML
        \/ InspectHAR \/ InspectWithoutKey \/ InspectDecrypt \/ InspectPlain
        \/ InspectParse \/ InspectReturn

Spec == Init /\ [][Next]_vars

----------------------------------------------------------------------------
(* Properties *)

\* C1: the Index values of the results of ExtractFromHAR, read in output
\* order, are exactly 1, 2, ..., N, and the shared counter is advanced only
\* when a candidate is accepted (it is always one past the number of results).
C1_IndexSequence ==
    /\ \A i \in 1..Len(results) : results[i].Index = i
    /\ pc \notin {"start", "error"} => index = Len(results) + 1

\* Two entries gave results, one entry gave several, and a candidate was refused.
C1_Witness ==
    /\ pc = "done" /\ entryNo = 2
    /\ Len(results) >= 3 /\ Len(tried) > Len(results)
    /\ origin[1] = 1 /\ origin[Len(results)] = 2

SourceRank(source) ==
    IF source = RequestQuery THEN 1 ELSE IF source = RequestBody THEN 2 ELSE 3

\* C2: the output order of ExtractFromHAR is the traversal order: results of
\* an earlier entry precede those of a later entry, and within one entry
\* request-query results precede request-body results, which precede
\* response-body results.
C2_TraversalOrder ==
    \A i, j \in 1..Len(results) :
        i < j => \/ origin[i] < origin[j]
                 \/ /\ origin[i] = origin[j]
                    /\ SourceRank(results[i].Source) <= SourceRank(results[j].Source)

\* One entry gave a query, a body and a response result, and another entry followed.
C2_Witness ==
    /\ pc = "done"
    /\ \E i, j, k, l \in 1..Len(results) :
          /\ origin[i] = 1 /\ origin[j] = 1 /\ origin[k] = 1 /\ origin[l] = 2
          /\ results[i].Source = RequestQuery
          /\ results[j].Source = RequestBody
          /\ results[k].Source = ResponseBody

\* C3: two runs of ExtractFromHAR on the same capture document return the
\* same sequence of results.
C3_Deterministic == pc = "done" => run2.results = results

SAMLDocs == {DocResponse, DocPlus, DocAuthn, DocAssertion}

\* C4: a one-entry capture whose POST form parameter SAMLResponse is the
\* standard base64 of a SAML document D yields exactly one result, with
\* DecodedXML = D, WasDeflated false, Source request-body and Index 1.
C4_PostParameterRecovered ==
    \A d \in SAMLDocs :
        (pc = "done" /\ entryNo = 1 /\ entry = PostParamEntry(d))
        => /\ Len(results) = 1
           /\ results[1].DecodedXML = d
           /\ ~results[1].WasDeflated
           /\ results[1].Source = RequestBody
           /\ results[1].Index = 1

\* The candidate is accepted when tried on its own.
Accepted(c) == tryExtractSAML(c.value, c.name, <<>>, <<>>, 1) # <<>>

\* C5: ExtractFromHAR fails only at the parsing of the capture JSON, before
\* any entry is scanned; otherwise it returns, and the results it returns
\* (after any number of entries) are exactly the candidates
\* that are accepted on their own, in the order tried: a candidate that fails
\* is omitted and changes nothing about the others.
C5_OnlyParseFails ==
    /\ pc = "error" => (entryNo = 0 /\ tried = <<>> /\ results = <<>>)
    /\ pc = "done"
       => LET acc == SelectSeq(tried, Accepted)
          IN  /\ Len(results) = Len(acc)
              /\ \A i \in 1..Len(results) :
                    /\ results[i].ParameterName = acc[i].name
                    /\ results[i].RawValue = unescapedValue(acc[i].value)

\* A refused candidate was followed by an accepted one; entries without
\* postData and with empty response text were scanned.
C5_Witness ==
    /\ pc = "done" /\ results # <<>>
    /\ ~entry.request.hasPostData /\ entry.response.content.text = <<>>
    /\ \E i, j \in 1..Len(tried) : i < j /\ ~Accepted(tried[i]) /\ Accepted(tried[j])

\* C6: the decoded bytes of every result ExtractFromHAR returns contain a SAML
\* indicator and are either the plain base64 decoding of the candidate or
\* its base64+DEFLATE decoding.
C6_ResultsPassGate ==
    pc = "done" =>
    \A i \in 1..Len(results) :
        /\ \E k \in 1..Len(samlIndicators) :
              Contains(results[i].DecodedXML, samlIndicators[k])
        /\ Decode(results[i].RawValue).ok
        /\ \/ results[i].DecodedXML = Decode(results[i].RawValue).val
           \/ /\ inflate(Decode(results[i].RawValue).val).ok
              /\ results[i].DecodedXML = inflate(Decode(results[i].RawValue).val).val

\* A candidate that decodes to XML without any SAML indicator was tried and
\* refused, while another was accepted after inflation.
C6_Witness ==
    /\ pc = "done"
    /\ \E i \in 1..Len(results) : results[i].WasDeflated
    /\ \E i \in 1..Len(tried) :
          /\ Decode(unescapedValue(tried[i].value)).ok
          /\ Decode(unescapedValue(tried[i].value)).val = DocNotSAML
    /\ \A i \in 1..Len(results) : results[i].DecodedXML # DocNotSAML

ResponseWrappers == { OpenTag(p, Response, a) : p \in {samlp, saml2p, <<>>}, a \in BOOLEAN }

\* C7: a document with a Response wrapper element and a nested Assertion
\* element is classified as Response, for every prefix convention of the
\* wrapper, with or without attributes.
C7_ResponseWins ==
    (op = "detectSAMLType"
     /\ arg.text \in { w \o n : w \in ResponseWrappers, n \in AssertionTags })
    => ret = Response

PriorityOrder == <<Response, AuthnRequest, LogoutRequest, LogoutResponse, Assertion>>

\* The types, by position in the priority order, one of whose indicators
\* occurs in the content.
Hits(content) ==
    { i \in 1..Len(typeChecks) :
        \E j \in 1..Len(typeChecks[i].indicators) :
            Contains(content, typeChecks[i].indicators[j]) }

\* C8: DetectType returns the first type, in the order Response,
\* AuthnRequest, LogoutRequest, LogoutResponse, Assertion, one of whose
\* indicators occurs in the content, and Unknown when none does.
C8_FirstMatchWins ==
    op = "detectSAMLType"
    => IF Hits(arg.text) = {} THEN ret = Unknown
       ELSE ret = PriorityOrder[CHOOSE i \in Hits(arg.text) :
                                   \A k \in Hits(arg.text) : i <= k]

\* Indicators of two types occur and the earlier type is returned.
C8_Witness ==
    /\ op = "detectSAMLType"
    /\ Hits(arg.text) = {2, 5}
    /\ ret = AuthnRequest

TypeSet == {Response, AuthnRequest, Assertion, LogoutRequest, LogoutResponse, Unknown}

\* The type tags of a parsed record and of its nested children.
RecordTypes(info) ==
    {info.Type} \cup {info.Assertion[i].Type : i \in 1..Len(info.Assertion)}

C10_RoundTrip ==
    op \in {"EncodeDecode", "EncodeDecodeDeflate"} => ret.ok /\ ret.val = arg.text

\* The deflated round trip of a sequence of full length whose plain encoding
\* contains '+'.
C10_Witness ==
    /\ op = "EncodeDecodeDeflate" /\ ret.ok
    /\ Len(arg.text) = MaxLen
    /\ \E i \in 1..Len(Encode(arg.text)) : Encode(arg.text)[i] = 43

\* C11: Decode is invariant to white space: for a valid base64 string S and
\* any S' obtained from it by inserting spaces, carriage returns or line
\* feeds (leading, trailing or interior), Decode(S') succeeds with the bytes
\* S encodes, which are the bytes Decode(S) returns.
C11_WhitespaceInvariant ==
    (op = "DecodeSpaced" /\ StdDecodeString(arg.text).ok)
        => /\ ret.out = StdDecodeString(arg.text)
           /\ ret.out = Decode(arg.text)

\* A space was inserted inside a non-empty valid value and at its end.
C11_Witness ==
    /\ op = "DecodeSpaced"
    /\ arg.text = Encode(DocPlus)
    /\ ret.input = Spaced(arg.text, <<32>>, 3, Len(arg.text))
    /\ ret.out = Ok(DocPlus)

\* The results, in the order the claim gives, of the attempts open to a
\* cleaned text c whose percent-decoding is u.
attemptsInOrder(c, u) ==
    << [s |-> [by |-> "std", on |-> "cleaned"], r |-> StdDecodeString(c)],
       [s |-> [by |-> "url", on |-> "cleaned"], r |-> URLDecodeString(c)],
       [s |-> [by |-> "fix", on |-> "cleaned"], r |-> decodeWithPaddingFix(c)] >>
    \o (IF u.ok /\ u.val # c
        THEN << [s |-> [by |-> "std", on |-> "urlDecoded"], r |-> StdDecodeString(u.val)],
                [s |-> [by |-> "fix", on |-> "urlDecoded"],
                 r |-> decodeWithPaddingFix(u.val)] >>
        ELSE <<>>)

\* The attempts made are the first n of all, every one but the last failed,
\* the last one gives the result, and an error is the result only of the
\* last of all.
firstSuccess(all, made, out) ==
    /\ Len(made) \in 1..Len(all)
    /\ \A i \in 1..Len(made) : made[i] = all[i].s
    /\ \A i \in 1..(Len(made) - 1) : ~all[i].r.ok
    /\ out = all[Len(made)].r
    /\ out.ok \/ Len(made) = Len(all)

\* C12: Decode tries standard base64, URL-safe base64, standard base64 with
\* padding repair and then, only if percent-decoding changes the cleaned
\* string, standard base64 and padding repair on the percent-decoded string,
\* strictly in this order; it returns the first success and an error exactly
\* when all of them fail.
C12_StrategyOrder ==
    op = "Decode"
        => /\ firstSuccess(attemptsInOrder(ret.cleaned, QueryUnescape(ret.cleaned)),
                           ret.tried, ret.out)
           /\ ret.out = Decode(arg.text)

\* "PA%3D": every attempt on the cleaned text fails, percent-decoding gives
\* "PA=", standard base64 fails on it and the padding repair gives "<".
C12_Witness ==
    /\ op = "Decode"
    /\ arg.text = <<80, 65, 37, 51, 68>>
    /\ Len(ret.tried) = 5
    /\ ret.out = Ok(<<60>>)

\* What the claim has SmartDecode return for a trimmed input.
claimedSmartDecode(trimmed) ==
    IF HasPrefix(trimmed, <<60>>) THEN Ok(trimmed) ELSE smartDecoded(Decode(trimmed))

\* C13: SmartDecode skips decoding only when the trimmed input starts with
\* '<', returning that XML; otherwise it runs Decode and returns Decode's
\* error when no strategy succeeds, else the decoded bytes when they are
\* valid UTF-8 starting with '<', else the inflated bytes when inflation
\* succeeds and they are valid UTF-8 starting with '<', else the decoded
\* bytes unmodified.
C13_SmartDecode ==
    op = "SmartDecode" => ret = claimedSmartDecode(TrimSpace(arg.text))

\* C14: Decode given the empty input, or an input that consists only of
\* spaces, carriage returns and line feeds, returns an error and not a
\* successful result.
C14_EmptyInputFails ==
    (op = "Decode" /\ \A i \in 1..Len(arg.text) : arg.text[i] \in {32, 13, 10})
        => ~ret.out.ok

\* C15: for every well-formed document whose root element is Response,
\* AuthnRequest or Assertion, under any namespace prefix or none, Parse
\* succeeds with a record whose type is the local name of the root; a
\* Response that embeds an Assertion parses as a Response with the Assertion
\* attached as its nested child.
C15_ParsesByRoot ==
    (/\ op = "Parse"
     /\ WellFormed(arg.doc)
     /\ arg.doc.root.name \in {Response, AuthnRequest, Assertion})
        => /\ ret.ok
           /\ ret.val.Type = arg.doc.root.name
           /\ (arg.doc.root.name = Response /\ assertionChildren(arg.doc) # <<>>)
                 => (Len(ret.val.Assertion) = 1 /\ ret.val.Assertion[1].Type = Assertion)

\* No opening tag of Parse occurs in the document.
Inconclusive(doc) ==
    /\ ~sniffs(doc, samlp, Response)
    /\ ~sniffs(doc, samlp, AuthnRequest)
    /\ ~sniffs(doc, samlNS, Assertion)

\* C16: Parse returns an error and no record for every input that is not a
\* well-formed SAML document (empty input, text that is not XML, malformed
\* XML); when no opening tag is found the error is returned only after the
\* trial unmarshals as Response, AuthnRequest and Assertion have all failed.
C16_InvalidInputFails ==
    op = "Parse"
        => /\ ~WellFormed(arg.doc) => (~ret.ok /\ ret.val = <<>>)
           /\ (Inconclusive(arg.doc) /\ ~ret.ok)
                 => \A n \in {Response, AuthnRequest, Assertion} : ~Unmarshals(arg.doc, n)

C17_PartialNeverFails ==
    (op = "ParsePartial" /\ arg.doc \in ResponseDocs)
        => /\ ret.ok
           /\ ret.val.Type = ResponseEncrypted
           /\ ret.val.ID = Values.id
           /\ ret.val.Issuer = Values.idp
           /\ ret.val.Status = <<[StatusCode |-> Success, StatusMessage |-> <<>>]>>
           /\ "Destination" \in DOMAIN arg.doc.root.attrs
                 => ret.val.Destination = Values.acs
           /\ named(arg.doc.children, Names.Signature) # <<>>
                 => ret.val.Signature = <<[Signed |-> TRUE, SignatureMethod |-> Values.rsa]>>

\* The value is "true" in some mixture of cases.
IsTrueIgnoringCase(v) ==
    /\ Len(v) = 4
    /\ v[1] \in {116, 84} /\ v[2] \in {114, 82} /\ v[3] \in {117, 85} /\ v[4] \in {101, 69}

\* The field is absent exactly when the element lacks the attribute, and
\* else holds whether the value of the attribute is "true" ignoring case.
TriState(element, name, field) ==
    IF name \in DOMAIN element.attrs
    THEN field = <<IsTrueIgnoringCase(element.attrs[name])>>
    ELSE field = <<>>

\* C18: each of ForceAuthn, IsPassive, AllowCreate of NameIDPolicy and
\* isRequired of a RequestedAttribute is absent exactly when the attribute
\* is missing; when the attribute is present, with any value, the field is
\* present and true iff the value equals "true" ignoring case.
C18_TriStateBooleans ==
    (op = "Parse" /\ arg.doc \in AuthnDocs)
        => /\ ret.ok
           /\ TriState(arg.doc.root, "ForceAuthn", ret.val.ForceAuthn)
           /\ TriState(arg.doc.root, "IsPassive", ret.val.IsPassive)
           /\ Len(ret.val.NameIDPolicy) = 1
           /\ TriState(arg.doc.children[1], "AllowCreate", ret.val.NameIDPolicy[1].AllowCreate)
           /\ Len(ret.val.RequestedAttributes) = 1
           /\ TriState(arg.doc.children[2].children[1], "isRequired",
                       ret.val.RequestedAttributes[1].IsRequired)

\* The timestamp texts that are instants.
ValidTimes == {Times.utc, Times.offset, Times.fraction}

IsInstant(t) ==
    /\ t.month \in 1..12 /\ t.day \in 1..31
    /\ t.hour \in 0..23 /\ t.minute \in 0..59 /\ t.second \in 0..59

\* The field is a valid instant when the element carries the attribute with
\* an instant as its value, and absent otherwise.
TimeField(element, name, field) ==
    IF name \in DOMAIN element.attrs /\ element.attrs[name] \in ValidTimes
    THEN Len(field) = 1 /\ IsInstant(field[1])
    ELSE field = <<>>

\* The five timestamps of the record of an Assertion element.
AssertionTimes(element, info) ==
    /\ TimeField(element, "IssueInstant", info.IssueInstant)
    /\ Len(info.Conditions) = 1 /\ Len(info.AuthnStatement) = 1
    /\ TimeField(element.children[2], "NotBefore", info.Conditions[1].NotBefore)
    /\ TimeField(element.children[2], "NotOnOrAfter", info.Conditions[1].NotOnOrAfter)
    /\ TimeField(element.children[3], "AuthnInstant", info.AuthnStatement[1].AuthnInstant)
    /\ TimeField(element.children[3], "SessionNotOnOrAfter",
                 info.AuthnStatement[1].SessionNotOnOrAfter)

\* The element without the timestamp attributes whose value is no instant.
RECURSIVE WithoutBadTimes(_)
WithoutBadTimes(element) ==
    [ element EXCEPT
        !.attrs = [ n \in { m \in DOMAIN element.attrs :
                              m \in { "IssueInstant", "NotBefore", "NotOnOrAfter",
                                      "AuthnInstant", "SessionNotOnOrAfter" }
                                 => element.attrs[m] \in ValidTimes }
                    |-> element.attrs[n] ],
        !.children = [ i \in 1..Len(element.children) |->
                         WithoutBadTimes(element.children[i]) ] ]

\* C20: every timestamp field of a parsed record (IssueInstant, NotBefore,
\* NotOnOrAfter, AuthnInstant, SessionNotOnOrAfter) is absent or a valid
\* instant; a timestamp attribute that is no instant leaves that field
\* absent, never makes Parse or ParsePartial fail and changes no other
\* field: the record is the one of the document without that attribute.
C20_Timestamps ==
    (op \in {"Parse", "ParsePartial"} /\ arg.doc \in TimeDocs)
        => /\ ret.ok
           /\ TimeField(arg.doc.root, "IssueInstant", ret.val.IssueInstant)
           /\ arg.doc.root.name = Assertion => AssertionTimes(rootElement(arg.doc), ret.val)
           /\ (arg.doc.root.name = Response /\ op = "Parse")
                 => (Len(ret.val.Assertion) = 1
                     /\ AssertionTimes(arg.doc.children[3], ret.val.Assertion[1]))
           /\ ret = IF op = "Parse"
                    THEN Parse(DocOf(WithoutBadTimes(rootElement(arg.doc))))
                    ELSE ParsePartial(DocOf(WithoutBadTimes(rootElement(arg.doc))))

\* An Assertion whose NotBefore is the 29th of February 2023 and whose
\* AuthnInstant is a date without time was parsed: both are absent, the
\* IssueInstant and NotOnOrAfter are instants.
C20_Witness ==
    /\ op = "Parse"
    /\ arg.doc = DocOf(TimedAssertion(<<Times.utc>>, <<Times.noLeapDay>>, <<Times.utc>>,
                                      <<Times.dateOnly>>, <<>>))
    /\ ret.ok
    /\ ret.val.IssueInstant =
          << [ year |-> 2024, month |-> 1, day |-> 15, hour |-> 10, minute |-> 30,
               second |-> 0, fraction |-> <<>>, offset |-> 0 ] >>
    /\ ret.val.Conditions[1].NotBefore = <<>>
    /\ ret.val.Conditions[1].NotOnOrAfter = ret.val.IssueInstant
    /\ ret.val.AuthnStatement[1].AuthnInstant = <<>>
    /\ ret.val.ID = Values.id

\* The accepted candidates, in the order tried: the i-th of them gave the
\* i-th result.
AcceptedTried == SelectSeq(tried, Accepted)

\* The source category of a place of a capture entry: the URL query and the
\* queryString array are the request query; postData.params, the
\* form-encoded postData.text and the raw postData.text are the request body;
\* hidden input fields and the raw text of the response content are the
\* response body.
SourceOf(place) ==
    IF place \in {"url", "queryString"} THEN RequestQuery
    ELSE IF place \in {"params", "form", "postData.text"} THEN RequestBody
    ELSE ResponseBody

\* C21: the Source of every result of ExtractFromHAR names the place its
\* candidate was read from (request-query, request-body or response-body),
\* and its URL is the request URL of the entry the candidate belongs to.
C21_SourceAndURL ==
    pc = "done"
    => LET acc == AcceptedTried
       IN  /\ Len(results) = Len(acc)
           /\ \A i \in 1..Len(results) :
                 /\ results[i].Source = SourceOf(acc[i].place)
                 /\ results[i].URL = acc[i].url

\* One entry gave a result from its URL query, from postData.params and
\* from a hidden field; another entry, with another URL, gave one from its
\* raw response text.
C21_Witness ==
    /\ pc = "done" /\ Len(results) = 4
    /\ results[1].Source = RequestQuery /\ tried[1].place = "url"
    /\ results[2].Source = RequestBody
    /\ results[3].Source = ResponseBody
    /\ results[4].Source = ResponseBody /\ tried[Len(tried)].place = "content.text"
    /\ results[4].URL # results[1].URL
    /\ origin[4] = 2

\* C22 as claimed: the parameter name of a result is empty for raw-body
\* matches and for hidden form field matches, and is the matched allow-listed
\* parameter's name for query and form parameter matches.
C22_ParameterName ==
    pc = "done"
    => LET acc == AcceptedTried
       IN  \A i \in 1..Len(results) :
              IF acc[i].place \in {"postData.text", "content.text", "input"}
              THEN results[i].ParameterName = <<>>
              ELSE /\ results[i].ParameterName = acc[i].name
                   /\ isSAMLParameter(results[i].ParameterName)

\* C22, amended: the parameter name of a result is empty for raw-body
\* matches only (the raw postData.text and the raw response text); for a
\* hidden form field match it is the name attribute of the field, one of
\* SAMLResponse, SAMLRequest and SAMLAssertion, and for query and form
\* parameter matches the matched allow-listed parameter's name.
C22_ParameterNameButHidden ==
    pc = "done"
    => LET acc == AcceptedTried
       IN  \A i \in 1..Len(results) :
              IF acc[i].place \in {"postData.text", "content.text"}
              THEN results[i].ParameterName = <<>>
              ELSE /\ results[i].ParameterName = acc[i].name
                   /\ IF acc[i].place = "input"
                      THEN results[i].ParameterName \in htmlNames
                      ELSE isSAMLParameter(results[i].ParameterName)

\* A hidden field, a raw body and a query parameter each gave a result.
C22_Witness ==
    /\ pc = "done"
    /\ LET acc == AcceptedTried
       IN  /\ Len(results) = Len(acc)
           /\ \E i, j, k \in 1..Len(results) :
                 /\ acc[i].place = "input"
                 /\ results[i].ParameterName = SAMLResponseName
                 /\ acc[j].place = "postData.text"
                 /\ results[j].ParameterName = <<>>
                 /\ acc[k].place = "url"
                 /\ results[k].ParameterName = SAMLRequestName

\* C23: the RawValue of every result of ExtractFromHAR is the text of its
\* candidate as it was read from the capture entry, also when
\* percent-decoding changes that text before it is decoded.
C23_RawValueOriginal ==
    pc = "done"
    => LET acc == AcceptedTried
       IN  \A i \in 1..Len(results) : results[i].RawValue = acc[i].value

\* The plain decodings of the accepted candidates: Decode of their text
\* after the percent-decoding of tryExtractSAML.
PlainDecodings ==
    LET acc == AcceptedTried
    IN  [i \in 1..Len(acc) |-> Decode(unescapedValue(acc[i].value))]

\* A result against the plain decoding of its candidate.
FlagOf(result, plain) ==
    /\ plain.ok
    /\ result.WasDeflated = ~looksLikeXML(plain.val)
    /\ IF result.WasDeflated
       THEN inflate(plain.val).ok /\ result.DecodedXML = inflate(plain.val).val
       ELSE result.DecodedXML = plain.val
    /\ HasPrefix(plain.val, LT) => ~result.WasDeflated

\* C24: for every result of ExtractFromHAR, WasDeflated is true exactly when
\* DecodedXML was obtained by inflating the base64-decoded bytes, and that
\* happens only when the plain decoding is not XML-shaped: a candidate whose
\* plain decoding starts with '<' is returned as decoded, WasDeflated false.
C24_WasDeflated ==
    pc = "done"
    => LET plain == PlainDecodings
       IN  /\ Len(plain) = Len(results)
           /\ \A i \in 1..Len(results) : FlagOf(results[i], plain[i])

\* One result was inflated, another was taken from a plain decoding that
\* starts with '<'.
C24_Witness ==
    /\ pc = "done"
    /\ LET plain == PlainDecodings
       IN  /\ Len(results) = Len(plain)
           /\ \E i, j \in 1..Len(results) :
                 /\ results[i].WasDeflated
                 /\ results[i].DecodedXML = DocAuthn
                 /\ results[i].DecodedXML # plain[i].val
                 /\ ~results[j].WasDeflated
                 /\ HasPrefix(plain[j].val, LT)
                 /\ results[j].DecodedXML = DocResponse

\* The file name without its prefix "saml_" and its extension ".xml".
Stem(name) == SubSeq(name, 6, Len(name) - 4)

\* What the type part of a name shows of a character of the type: a space
\* as '_', a capital letter as its small letter, anything else as it is.
TypeChar(c) == IF c = 32 THEN 95 ELSE IF c >= 65 /\ c <= 90 THEN c + 32 ELSE c

\* What the source part shows of a character of the source: '-' as '_'.
SourceChar(c) == IF c = 45 THEN 95 ELSE c

\* The stem is w digits that read as the index, "_", the type shown
\* character by character, "_", the source shown character by character.
StemOf(stem, w, x) ==
    /\ Len(stem) = w + 1 + Len(x.Type) + 1 + Len(x.Source)
    /\ DigitsAt(stem, 1, w)
    /\ Num(stem, 1, w) = x.Index
    /\ stem[w + 1] = 95
    /\ \A i \in 1..Len(x.Type) : stem[w + 1 + i] = TypeChar(x.Type[i])
    /\ stem[w + 1 + Len(x.Type) + 1] = 95
    /\ \A i \in 1..Len(x.Source) :
          stem[w + 1 + Len(x.Type) + 1 + i] = SourceChar(x.Source[i])

EncryptedResponse(doc) ==
    /\ doc.root.name = Response
    /\ \E i \in 1..Len(doc.children) : doc.children[i].name = EncryptedAssertion
    /\ IsEncrypted(doc)

\* The Response-level metadata of a document: its ID and its Issuer.
ResponseMetadata(info, doc) ==
    /\ info.ok
    /\ info.val.ID = attr(doc.root, "ID")
    /\ info.val.Issuer = child(doc.children, Issuer).text

\* C26 for one document: inspect without -k on a Response with an encrypted
\* assertion returns no error and prints the Response-level metadata.
C26_SingleInput ==
    (op = "runInspectSAML" /\ ~arg.key /\ EncryptedResponse(arg.doc))
    => (ret.err = "" /\ ResponseMetadata(ret.printed, arg.doc))

\* C26 for the messages of a HAR file: each Response with an encrypted
\* assertion gets the warning that a key is needed and its Response-level
\* metadata, and the command returns no error.
C26_HARInput ==
    (op = "runInspectHAR" /\ ~arg.key /\ ret.err = "")
    => \A i \in 1..Len(arg.messages) :
          EncryptedResponse(arg.messages[i])
          => /\ ret.out[i].warning = "provide -k flag to decrypt"
             /\ ResponseMetadata(ret.out[i].info, arg.messages[i])

\* C26: without -k, inspect of a Response with an encrypted assertion still
\* shows the Response-level metadata and says that a key is needed, and does
\* not fail, for a single file or stdin input as for a HAR file.
C26_NoKeyStillShows == C26_SingleInput /\ C26_HARInput

\* C27: a record returned by Parse has a nested child only if its type is
\* Response; the child has type Assertion and no nested child of its own;
\* records of type AuthnRequest and Assertion have no nested child.
C27_NestingDepth ==
    (op = "Parse" /\ ret.ok)
    => /\ ret.val.Assertion # <<>>
          => /\ ret.val.Type = Response
             /\ Len(ret.val.Assertion) = 1
             /\ ret.val.Assertion[1].Type = Assertion
             /\ ret.val.Assertion[1].Assertion = <<>>
       /\ ret.val.Type \in {AuthnRequest, Assertion} => ret.val.Assertion = <<>>

\* A Response with an embedded Assertion was parsed and carries the child.
C27_Witness ==
    /\ op = "Parse" /\ ret.ok
    /\ ret.val.Type = Response
    /\ ret.val.Assertion # <<>>
    /\ ret.val.Assertion[1].Type = Assertion
    /\ \E i \in 1..Len(arg.doc.children) : arg.doc.children[i].name = Assertion

\* The places that show one occurrence of a parameter twice: the query of
\* the request URL and the queryString array made from it, postData.params
\* and the form-encoded postData.text they are made from.
TwoViews == { <<"url", "queryString">>, <<"params", "form">> }

\* C28: one occurrence of a parameter gives at most one result: no two
\* results of one entry have the same parameter name and the same value and
\* come from the two views of the same place.
C28_OneResultPerOccurrence ==
    pc = "done"
    => LET acc == AcceptedTried
       IN  \A i, j \in 1..Len(results) :
              ~ /\ i < j
                /\ origin[i] = origin[j]
                /\ results[i].ParameterName = results[j].ParameterName
                /\ results[i].RawValue = results[j].RawValue
                /\ <<acc[i].place, acc[j].place>> \in TwoViews

\* C29: the names of the files written in one extract run are pairwise
\* distinct, so no file written earlier in the run is overwritten, and when
\* the command has saved all results the directory holds as many files of
\* the run as there are results.
C29_DistinctFilenames ==
    /\ \A i, j \in 1..Len(savedFiles) : i # j => savedFiles[i] # savedFiles[j]
    /\ pc = "saved"
       => Cardinality({savedFiles[i] : i \in 1..Len(savedFiles)}) = Len(results)

\* Files were written for results of equal type and source: their names
\* differ in the index only.
C29_Witness ==
    /\ pc = "saved" /\ Len(savedFiles) >= 3
    /\ \E i, j \in 1..Len(results) :
          /\ i # j
          /\ results[i].Type = results[j].Type
          /\ results[i].Source = results[j].Source
          /\ savedFiles[i] # savedFiles[j]

\* The warnings of runInspectHAR that end the work on a message.
KeyNeeded == "provide -k flag to decrypt"
DecryptionWarnings == {"Failed to load private key", "Failed to decrypt"}
DisplayWarnings == {"Failed to parse", "Failed to format"}

\* What was written for message m is what its case allows: an encrypted
\* message without a key gets the warning and ParsePartial on the document
\* as extracted; with a key, a warning and no parser, or Parse on what
\* Decrypt returned; any other message gets Parse on the document itself.
\* A record is printed exactly when no warning of failure was.
VisitedAs(m, line) ==
    /\ IF IsEncrypted(m)
       THEN IF ~arg.key
            THEN /\ line.warning = KeyNeeded
                 /\ line.parser = "ParsePartial"
                 /\ line.on = m
                 /\ line.info = ParsePartial(m)
            ELSE \/ line.warning \in DecryptionWarnings /\ line.parser = ""
                 \/ /\ line.parser = "Parse"
                    /\ line.on # m
                    /\ Ok(line.on) \in Plaintexts
       ELSE line.parser = "Parse" /\ line.on = m
    /\ line.parser = "Parse"
       => /\ line.warning \in DisplayWarnings \cup {""}
          /\ line.warning = "" => line.info = Parse(line.on)
          /\ ~Parse(line.on).ok => line.warning = "Failed to parse"
    /\ line.warning \in DecryptionWarnings \cup DisplayWarnings <=> ~line.info.ok

\* C30: runInspectHAR visits the extracted messages once each, in index
\* order; a failure on a message (no key, key loading, decryption, parsing,
\* formatting) is a warning for that message and the later messages are
\* still visited; the command returns no error; an encrypted message is
\* parsed only as decrypted, or by ParsePartial when no key is given.
C30_InspectHAR ==
    (arg.kind = "inspectHAR" /\ op # "idle" /\ ret.err = "")
    => /\ ret.i = Len(ret.out) + 1
       /\ Len(ret.out) <= Len(arg.messages)
       /\ \A k \in 1..Len(ret.out) :
             /\ ret.out[k].index = k
             /\ VisitedAs(arg.messages[k], ret.out[k])
       /\ op = "runInspectHAR" => Len(ret.out) = Len(arg.messages)

\* With a key, the first message could not be decrypted and the second was
\* decrypted, parsed and printed; the command returned.
C30_Witness ==
    /\ op = "runInspectHAR" /\ arg.key /\ ret.err = ""
    /\ Len(arg.messages) = 2 /\ Len(ret.out) = 2
    /\ ret.out[1].warning = "Failed to decrypt"
    /\ IsEncrypted(arg.messages[2])
    /\ ret.out[2].warning = "" /\ ret.out[2].parser = "Parse"
    /\ ret.out[2].info.ok /\ ret.out[2].info.val.Type = Assertion

====
